---- MODULE Spec2Model ----
(***************************************************************************)
(* Model of the workout generation engine of Foxingfit-Smart-generator     *)
(* (src/generator/generator.py, src/generator/branding.py,                 *)
(* src/generator/models.py, src/scripts/models.py).                        *)
(*                                                                         *)
(* Durations are FloatFields rounded to one decimal (WorkoutScript.save),  *)
(* so every duration and every threshold is held in tenths of a minute:    *)
(* 15 min = 150, 3.5 min = 35.  Freshness scores are held in tenths too.   *)
(* Category names are tuples of characters, so that the substring tests    *)
(* of the code are computed and not assumed.                               *)
(***************************************************************************)
EXTENDS Integers, Sequences, FiniteSets, TLC

\* ------------------------------------------------------------------------
\* Bounds of the model
\* ------------------------------------------------------------------------

\* largest number of content blocks present in the repository of one run
MaxLibrary == 4
\* the same for the runs whose target is at a limit of the accepted range
MaxLimitLibrary == 2

\* ------------------------------------------------------------------------
\* Program constants (tenths of a minute unless said otherwise)
\* ------------------------------------------------------------------------
MinTargetDuration == 150
MaxTargetDuration == 1200
FlexShort == 30
FlexMedium == 40
FlexLong == 50
ShortTargetLimit == 300
MediumTargetLimit == 450
MinOptionalTime == 30
DefaultStepEstimate == 50
DefaultSpecialEstimate == 35
FillerCloseEnough == 10
TopFreshCount == 3
TopQuoteCount == 3

NoScript == 0
NoCategory == 0
NeverSelected == -1

\* the day (in whole days) at which the run takes place
Today == 30

\* ------------------------------------------------------------------------
\* Strings as character tuples
\* ------------------------------------------------------------------------
\* the letters up to U+00FF that str.lower() changes, and what it makes of
\* them, position by position
UpperCase == <<"A","B","C","D","E","F","G","H","I","J","K","L","M",
               "N","O","P","Q","R","S","T","U","V","W","X","Y","Z",
               "À","Á","Â","Ã","Ä","Å","Æ","Ç","È","É","Ê","Ë","Ì",
               "Í","Î","Ï","Ð","Ñ","Ò","Ó","Ô","Õ","Ö","Ø","Ù","Ú",
               "Û","Ü","Ý","Þ">>
LowerCase == <<"a","b","c","d","e","f","g","h","i","j","k","l","m",
               "n","o","p","q","r","s","t","u","v","w","x","y","z",
               "à","á","â","ã","ä","å","æ","ç","è","é","ê","ë","ì",
               "í","î","ï","ð","ñ","ò","ó","ô","õ","ö","ø","ù","ú",
               "û","ü","ý","þ">>

LowerChar(c) ==
    IF \E i \in DOMAIN UpperCase : UpperCase[i] = c
    THEN LowerCase[CHOOSE i \in DOMAIN UpperCase : UpperCase[i] = c]
    ELSE c

\* str.lower()
Lower(s) == [i \in 1..Len(s) |-> LowerChar(s[i])]

\* what str.upper() makes of one character: a string, since the sharp s
\* becomes two letters.  A character above U+00FF is written by its code
\* point, "U+039C" for the Greek capital mu and "U+0178" for the Y with
\* diaeresis.
UpperChar(c) ==
    IF c = "ß" THEN <<"S", "S">>
    ELSE IF c = "µ" THEN <<"U+039C">>
    ELSE IF c = "ÿ" THEN <<"U+0178">>
    ELSE IF \E i \in DOMAIN LowerCase : LowerCase[i] = c
    THEN <<UpperCase[CHOOSE i \in DOMAIN LowerCase : LowerCase[i] = c]>>
    ELSE <<c>>

RECURSIVE Upper(_)
\* str.upper()
Upper(s) == IF s = << >> THEN << >> ELSE UpperChar(Head(s)) \o Upper(Tail(s))

\* `p in s` of Python for strings
Contains(s, p) ==
    \E i \in 1..(Len(s) - Len(p) + 1) : SubSeq(s, i, i + Len(p) - 1) = p

\* any(pattern in name for pattern in patterns)
ContainsAny(s, patterns) ==
    \E k \in 1..Len(patterns) : Contains(s, patterns[k])

P_warmup == <<"w","a","r","m","u","p">>
P_warm_up == <<"w","a","r","m","-","u","p">>
P_cooldown == <<"c","o","o","l","d","o","w","n">>
P_cool_down == <<"c","o","o","l","-","d","o","w","n">>
P_stretch == <<"s","t","r","e","t","c","h">>
P_relax == <<"r","e","l","a","x">>
P_savasana == <<"s","a","v","a","s","a","n","a">>
P_mindfulness == <<"m","i","n","d","f","u","l","n","e","s","s">>
P_connecting == <<"c","o","n","n","e","c","t","i","n","g">>
P_sun_greeting == <<"s","u","n","_","g","r","e","e","t","i","n","g">>
P_surprise == <<"s","u","r","p","r","i","s","e">>
P_kb_surprise == <<"k","b","_","s","u","r","p","r","i","s","e">>
P_vinyasa == <<"v","i","n","y","a","s","a">>
P_py_vinyasa == <<"p","y","_","v","i","n","y","a","s","a">>
P_max == <<"m","a","x">>
P_challenge == <<"c","h","a","l","l","e","n","g","e">>
P_cal_max == <<"c","a","l","_","m","a","x">>
P_handstand == <<"h","a","n","d","s","t","a","n","d">>
P_lever == <<"l","e","v","e","r">>
P_planche == <<"p","l","a","n","c","h","e">>
P_s2s == <<"s","2","s">>
P_s2sit == <<"s","2","s","i","t">>

N_kb_surprise == P_kb_surprise
N_cal_max_challenge ==
    <<"c","a","l","_","m","a","x","_","c","h","a","l","l","e","n","g","e">>
N_py_vinyasa_s2s == <<"p","y","_","v","i","n","y","a","s","a","_","s","2","s">>
N_py_vinyasa_s2sit ==
    <<"p","y","_","v","i","n","y","a","s","a","_","s","2","s","i","t">>
N_kb_combos == <<"k","b","_","c","o","m","b","o","s">>
N_kb_cooldown == <<"k","b","_","c","o","o","l","d","o","w","n">>
N_kb_core == <<"k","b","_","c","o","r","e">>
N_kb_old == <<"k","b","_","o","l","d">>
N_kb_warmup == <<"k","b","_","w","a","r","m","u","p">>
N_cal_handstand == <<"c","a","l","_","h","a","n","d","s","t","a","n","d">>
N_cal_push == <<"c","a","l","_","p","u","s","h">>
N_cal_warmup == <<"c","a","l","_","w","a","r","m","u","p">>
N_py_savasana == <<"p","y","_","s","a","v","a","s","a","n","a">>
N_py_standing == <<"p","y","_","s","t","a","n","d","i","n","g">>
N_py_sun_greeting ==
    <<"p","y","_","s","u","n","_","g","r","e","e","t","i","n","g">>

\* ------------------------------------------------------------------------
\* The content repository: categories, content blocks, template steps
\* ------------------------------------------------------------------------

Range(s) == {s[i] : i \in 1..Len(s)}

TrainingTypes == {"kickboxing", "power_yoga", "calisthenics"}
Goals == {"allround", "strength", "flexibility"}

\* ScriptCategory rows; the categories of one discipline are listed in
\* Meta.ordering (training_type, display_name).  The id of a category is its
\* index.
Categories == <<
    [name |-> N_kb_combos,   training_type |-> "kickboxing", is_active |-> TRUE],
    [name |-> N_kb_cooldown, training_type |-> "kickboxing", is_active |-> TRUE],
    [name |-> N_kb_core,     training_type |-> "kickboxing", is_active |-> TRUE],
    [name |-> N_kb_old,      training_type |-> "kickboxing", is_active |-> FALSE],
    [name |-> N_kb_surprise, training_type |-> "kickboxing", is_active |-> TRUE],
    [name |-> N_kb_warmup,   training_type |-> "kickboxing", is_active |-> TRUE],
    [name |-> N_cal_handstand,     training_type |-> "calisthenics", is_active |-> TRUE],
    [name |-> N_cal_max_challenge, training_type |-> "calisthenics", is_active |-> TRUE],
    [name |-> N_cal_push,          training_type |-> "calisthenics", is_active |-> TRUE],
    [name |-> N_cal_warmup,        training_type |-> "calisthenics", is_active |-> TRUE],
    [name |-> N_py_savasana,      training_type |-> "power_yoga", is_active |-> TRUE],
    [name |-> N_py_standing,      training_type |-> "power_yoga", is_active |-> TRUE],
    [name |-> N_py_sun_greeting,  training_type |-> "power_yoga", is_active |-> TRUE],
    [name |-> N_py_vinyasa_s2s,   training_type |-> "power_yoga", is_active |-> TRUE],
    [name |-> N_py_vinyasa_s2sit, training_type |-> "power_yoga", is_active |-> TRUE]
>>

CategoryIds == 1..Len(Categories)
CatCombos == 1
CatCooldown == 2
CatCore == 3
CatOld == 4
CatSurprise == 5
CatWarmup == 6
CalHandstand == 7
CalMaxChallenge == 8
CalPush == 9
CalWarmup == 10
PySavasana == 11
PyStanding == 12
PySunGreeting == 13
PyVinyasaS2S == 14
PyVinyasaS2Sit == 15

\* WorkoutScript rows that a repository may hold.  The id of a block is its
\* index; its title is in Titles.
\* last_selected is a day number or NeverSelected.
ScriptPool == <<
    [type |-> "kickboxing", script_category |-> CatCombos, goal |-> "strength",
     duration_minutes |-> 100, is_active |-> TRUE, last_selected |-> NeverSelected],
    [type |-> "kickboxing", script_category |-> CatCombos, goal |-> "allround",
     duration_minutes |-> 80, is_active |-> TRUE, last_selected |-> 25],
    [type |-> "kickboxing", script_category |-> CatCombos, goal |-> "flexibility",
     duration_minutes |-> 70, is_active |-> TRUE, last_selected |-> NeverSelected],
    [type |-> "kickboxing", script_category |-> CatCooldown, goal |-> "allround",
     duration_minutes |-> 60, is_active |-> TRUE, last_selected |-> NeverSelected],
    [type |-> "kickboxing", script_category |-> CatCore, goal |-> "strength",
     duration_minutes |-> 120, is_active |-> TRUE, last_selected |-> 10],
    [type |-> "kickboxing", script_category |-> CatCore, goal |-> "allround",
     duration_minutes |-> 30, is_active |-> FALSE, last_selected |-> NeverSelected],
    [type |-> "kickboxing", script_category |-> CatOld, goal |-> "allround",
     duration_minutes |-> 40, is_active |-> TRUE, last_selected |-> NeverSelected],
    [type |-> "kickboxing", script_category |-> CatSurprise, goal |-> "allround",
     duration_minutes |-> 40, is_active |-> TRUE, last_selected |-> NeverSelected],
    [type |-> "kickboxing", script_category |-> CatSurprise, goal |-> "strength",
     duration_minutes |-> 170, is_active |-> TRUE, last_selected |-> 28],
    [type |-> "kickboxing", script_category |-> CatWarmup, goal |-> "allround",
     duration_minutes |-> 60, is_active |-> TRUE, last_selected |-> NeverSelected],
    [type |-> "kickboxing", script_category |-> CatWarmup, goal |-> "flexibility",
     duration_minutes |-> 50, is_active |-> TRUE, last_selected |-> 20],
    [type |-> "calisthenics", script_category |-> CalHandstand, goal |-> "strength",
     duration_minutes |-> 80, is_active |-> TRUE, last_selected |-> NeverSelected],
    [type |-> "calisthenics", script_category |-> CalMaxChallenge, goal |-> "allround",
     duration_minutes |-> 50, is_active |-> TRUE, last_selected |-> NeverSelected],
    [type |-> "calisthenics", script_category |-> CalMaxChallenge, goal |-> "strength",
     duration_minutes |-> 40, is_active |-> TRUE, last_selected |-> 29],
    [type |-> "calisthenics", script_category |-> CalPush, goal |-> "allround",
     duration_minutes |-> 100, is_active |-> TRUE, last_selected |-> NeverSelected],
    [type |-> "calisthenics", script_category |-> CalWarmup, goal |-> "allround",
     duration_minutes |-> 50, is_active |-> TRUE, last_selected |-> NeverSelected],
    [type |-> "kickboxing", script_category |-> CatCombos, goal |-> "allround",
     duration_minutes |-> 90, is_active |-> TRUE, last_selected |-> 29],
    [type |-> "kickboxing", script_category |-> CatCombos, goal |-> "strength",
     duration_minutes |-> 60, is_active |-> TRUE, last_selected |-> 22],
    [type |-> "power_yoga", script_category |-> PySavasana, goal |-> "allround",
     duration_minutes |-> 50, is_active |-> TRUE, last_selected |-> NeverSelected],
    [type |-> "power_yoga", script_category |-> PyStanding, goal |-> "allround",
     duration_minutes |-> 200, is_active |-> TRUE, last_selected |-> NeverSelected],
    [type |-> "power_yoga", script_category |-> PyStanding, goal |-> "strength",
     duration_minutes |-> 100, is_active |-> TRUE, last_selected |-> 27],
    [type |-> "power_yoga", script_category |-> PySunGreeting, goal |-> "allround",
     duration_minutes |-> 80, is_active |-> TRUE, last_selected |-> NeverSelected],
    [type |-> "power_yoga", script_category |-> PyVinyasaS2S, goal |-> "allround",
     duration_minutes |-> 40, is_active |-> TRUE, last_selected |-> NeverSelected],
    [type |-> "power_yoga", script_category |-> PyVinyasaS2Sit, goal |-> "allround",
     duration_minutes |-> 60, is_active |-> TRUE, last_selected |-> NeverSelected]
>>

ScriptIds == 1..Len(ScriptPool)

\* WorkoutScript.title of every block, by id; the titles of one category
\* differ
Titles == <<
    <<"J","a","b"," ","c","r","o","s","s">>,
    <<"J","a","b"," ","h","o","o","k">>,
    <<"L","o","w"," ","k","i","c","k">>,
    <<"C","o","o","l","d","o","w","n"," ","s","t","r","e","t","c","h">>,
    <<"C","o","r","e"," ","p","l","a","n","k">>,
    <<"C","o","r","e"," ","t","w","i","s","t">>,
    <<"S","c","h","a","d","u","w","b","o","k","s","e","n">>,
    <<"Z","w","a","r","e"," ","v","e","r","r","a","s","s","i","n","g">>,
    <<"A","c","t","i","e","v","e"," ","v","e","r","r","a","s","s","i","n","g">>,
    <<"T","o","u","w","t","j","e"," ","s","p","r","i","n","g","e","n">>,
    <<"W","a","r","m","i","n","g"," ","u","p">>,
    <<"H","a","n","d","s","t","a","n","d"," ","h","o","l","d">>,
    <<"M","a","x"," ","p","u","l","l"," ","u","p","s">>,
    <<"M","a","x"," ","p","u","s","h"," ","u","p","s">>,
    <<"P","u","s","h"," ","u","p"," ","l","a","d","d","e","r">>,
    <<"W","a","r","m","i","n","g"," ","u","p">>,
    <<"R","o","u","n","d","h","o","u","s","e">>,
    <<"U","p","p","e","r","c","u","t">>,
    <<"S","a","v","a","s","a","n","a">>,
    <<"K","r","i","j","g","e","r"," ","e","e","n">>,
    <<"K","r","i","j","g","e","r"," ","t","w","e","e">>,
    <<"Z","o","n","n","e","g","r","o","e","t">>,
    <<"V","i","n","y","a","s","a"," ","s","t","a","a","n","d">>,
    <<"V","i","n","y","a","s","a"," ","z","i","t","t","e","n","d">>
>>

\* the characters of the titles in the order of their code points
CodePointOrder ==
    <<" ","A","B","C","D","E","F","G","H","I","J","K","L","M","N","O","P","Q",
      "R","S","T","U","V","W","X","Y","Z","a","b","c","d","e","f","g","h","i",
      "j","k","l","m","n","o","p","q","r","s","t","u","v","w","x","y","z">>

CodePointRank(c) == CHOOSE i \in DOMAIN CodePointOrder : CodePointOrder[i] = c

RECURSIVE StringBefore(_, _)
\* a < b for two strings
StringBefore(a, b) ==
    IF b = << >> THEN FALSE
    ELSE IF a = << >> THEN TRUE
    ELSE IF Head(a) = Head(b) THEN StringBefore(Tail(a), Tail(b))
    ELSE CodePointRank(Head(a)) < CodePointRank(Head(b))

\* WorkoutScript.Meta.ordering within one discipline: block d is listed
\* before block c when its category is listed before the category of c or,
\* in one category, its title is the smaller one
QuerysetBefore ==
    [d \in ScriptIds |-> [c \in ScriptIds |->
        IF ScriptPool[d].script_category # ScriptPool[c].script_category
        THEN ScriptPool[d].script_category < ScriptPool[c].script_category
        ELSE StringBefore(Titles[d], Titles[c])]]

\* the blocks the repository of a run for discipline tt is drawn from: the
\* blocks of the discipline and, for calisthenics, one kickboxing block
LibraryPool(tt) ==
    IF tt = "calisthenics"
    THEN {id \in ScriptIds : ScriptPool[id].type = tt} \cup {2}
    ELSE {id \in ScriptIds : ScriptPool[id].type = tt}

Script(id) == ScriptPool[id]
Duration(id) == ScriptPool[id].duration_minutes

\* category.name.lower() of every category
LowerName == [c \in CategoryIds |-> Lower(Categories[c].name)]

\* WorkoutTemplate rows of the requested discipline in sequence_order; the
\* alternatives of a step are listed as alternative_categories.all() returns
\* them (ScriptCategory Meta.ordering, i.e. ascending category id).
Step(primary, alts, required, active, surprise, maxch) ==
    [primary_category |-> primary, alternative_categories |-> alts,
     is_required |-> required, is_active |-> active,
     add_surprise_round_after |-> surprise,
     add_max_challenge_after |-> maxch,
     add_vinyasa_transition_after |-> FALSE, vinyasa_type |-> "none"]

Templates == <<
    \* 1: a discipline without template steps
    << >>,
    \* 2: warmup, core with a surprise round after it, cooldown
    << Step(CatWarmup, << >>, TRUE, TRUE, FALSE, FALSE),
       Step(CatCore, << >>, TRUE, TRUE, TRUE, FALSE),
       Step(CatCooldown, << >>, TRUE, TRUE, FALSE, FALSE) >>,
    \* 3: three rounds of combinations, a surprise round after the last
    << Step(CatCombos, << >>, TRUE, TRUE, FALSE, FALSE),
       Step(CatCombos, << >>, TRUE, TRUE, FALSE, FALSE),
       Step(CatCombos, << >>, TRUE, TRUE, TRUE, FALSE) >>,
    \* 4: only inactive steps
    << Step(CatWarmup, << >>, TRUE, FALSE, FALSE, FALSE),
       Step(CatCombos, << >>, FALSE, FALSE, TRUE, FALSE) >>,
    \* 5: inactive primary category, OR-sets, optional and inactive steps
    << Step(CatOld, << >>, TRUE, TRUE, FALSE, FALSE),
       Step(CatCore, <<CatCombos, CatCooldown>>, TRUE, TRUE, FALSE, TRUE),
       Step(CatWarmup, << >>, FALSE, FALSE, FALSE, FALSE),
       Step(CatCombos, <<CatOld, CatWarmup>>, FALSE, TRUE, FALSE, FALSE),
       Step(CatCooldown, << >>, TRUE, TRUE, FALSE, FALSE) >>,
    \* 6: the surprise category as the primary category of a step
    << Step(CatSurprise, << >>, TRUE, TRUE, FALSE, FALSE),
       Step(CatCombos, << >>, TRUE, TRUE, TRUE, FALSE) >>,
    \* 7: a required step of an inactive category, then an optional step
    << Step(CatOld, << >>, TRUE, TRUE, FALSE, FALSE),
       Step(CatCombos, << >>, FALSE, TRUE, FALSE, FALSE) >>
>>

\* a template step with a vinyasa transition after it
StepV(primary, alts, required, active, vtype) ==
    [primary_category |-> primary, alternative_categories |-> alts,
     is_required |-> required, is_active |-> active,
     add_surprise_round_after |-> FALSE,
     add_max_challenge_after |-> FALSE,
     add_vinyasa_transition_after |-> TRUE, vinyasa_type |-> vtype]

\* the templates of power yoga
PowerYogaTemplates == <<
    \* 1: sun greeting, two standing series with a transition after each,
    \* savasana
    << Step(PySunGreeting, << >>, TRUE, TRUE, FALSE, FALSE),
       StepV(PyStanding, << >>, TRUE, TRUE, "standing_to_standing"),
       StepV(PyStanding, << >>, TRUE, TRUE, "standing_to_sitting"),
       Step(PySavasana, << >>, FALSE, TRUE, FALSE, FALSE) >>,
    \* 2: a standing series, then the sun greeting with a transition after it
    << Step(PyStanding, << >>, TRUE, TRUE, FALSE, FALSE),
       StepV(PySunGreeting, << >>, TRUE, TRUE, "standing_to_sitting") >>
>>

\* the templates of calisthenics
CalisthenicsTemplates == <<
    \* 1: handstand and push-ups, a MAX challenge after each, then a warmup
    << Step(CalHandstand, << >>, TRUE, TRUE, FALSE, TRUE),
       Step(CalPush, << >>, TRUE, TRUE, FALSE, TRUE),
       Step(CalWarmup, << >>, FALSE, TRUE, FALSE, FALSE) >>,
    \* 2: push-ups with a MAX challenge after them
    << Step(CalPush, <<CalHandstand>>, TRUE, TRUE, FALSE, TRUE) >>
>>

\* WorkoutTemplate.objects.filter(training_type=tt): the templates a
\* discipline may have
TemplatesOf(tt) ==
    IF tt = "kickboxing" THEN Range(Templates)
    ELSE IF tt = "power_yoga" THEN Range(PowerYogaTemplates)
    ELSE Range(CalisthenicsTemplates)

RequestTypes == {"kickboxing", "power_yoga", "calisthenics"}
RequestGoals == {"allround", "strength"}
\* the target the libraries are explored with, and the targets at the
\* limits of the accepted range
MainTargets == {300}
LimitTargets == {149, 150, 1200, 1201}
\* the targets on both sides of the limits of the allowed deviation
FlexTargets == {301, 450, 451}

\* ------------------------------------------------------------------------
\* State
\* ------------------------------------------------------------------------
VARIABLES
    present,               \* ids of the WorkoutScript rows in the repository
    template_rules,        \* WorkoutTemplate rows of the requested discipline
    training_type,         \* argument of the call
    goal,                  \* argument of the call
    target,                \* argument target_duration of the call
    pc,                    \* position of the call
    error,                 \* reason of the ValueError raised, or "none"
    target_duration,       \* self.target_duration
    time_flexibility,      \* self.time_flexibility
    used_script_ids,       \* self.used_script_ids
    sport_additions,       \* self.sport_additions
    missing_categories,    \* self.missing_categories
    fallback_substitutions,\* self.fallback_substitutions
    selected_scripts,      \* the ordered block list being built
    total_duration,        \* running total of the walk
    optional_budget,       \* walk: budget of the optional steps
    optional_used,         \* walk: budget used by the optional steps
    step,                  \* walk: index of the next template step
    times_selected,        \* WorkoutScript.times_selected of every block
    last_selected,         \* WorkoutScript.last_selected of every block
    sessions,              \* WorkoutSession rows created
    result,                \* the dictionary returned by the call
    selection_log,         \* how every block of this run was selected
    balance_input,         \* the list handed to apply_duration_management
    run,                   \* number of the call made on the repository
    prior,                 \* what the earlier calls left behind
    probe                  \* input and output of a function applied on its own

vars == <<present, template_rules, training_type, goal, target, pc, error,
          target_duration, time_flexibility, used_script_ids, sport_additions,
          missing_categories, fallback_substitutions, selected_scripts,
          total_duration, optional_budget, optional_used, step,
          times_selected, last_selected, sessions, result, selection_log,
          balance_input, run, prior, probe>>

\* the variables the steps of one call leave alone
aux == <<run, prior, probe>>

\* ------------------------------------------------------------------------
\* Helpers
\* ------------------------------------------------------------------------
Min2(a, b) == IF a <= b THEN a ELSE b
Max2(a, b) == IF a >= b THEN a ELSE b

RECURSIVE SumDuration(_)
\* sum(script.duration_minutes for script in scripts)
SumDuration(s) ==
    IF s = << >> THEN 0 ELSE Duration(Head(s)) + SumDuration(Tail(s))

\* ------------------------------------------------------------------------
\* scripts/models.py
\* ------------------------------------------------------------------------

\* ScriptCategory.is_surprise_round: exact name
CatIsSurpriseRound(c) == Categories[c].name = N_kb_surprise
\* ScriptCategory.is_max_challenge: exact name
CatIsMaxChallenge(c) == Categories[c].name = N_cal_max_challenge
\* ScriptCategory.is_vinyasa_transition
CatIsVinyasaTransition(c) ==
    Categories[c].name \in {N_py_vinyasa_s2s, N_py_vinyasa_s2sit}

\* WorkoutScript.is_surprise_round / is_max_challenge / is_vinyasa_transition
is_surprise_round(id) == CatIsSurpriseRound(Script(id).script_category)
is_max_challenge(id) == CatIsMaxChallenge(Script(id).script_category)
is_vinyasa_transition(id) == CatIsVinyasaTransition(Script(id).script_category)

\* is_sport_addition as computed for SessionScript rows and for the result
IsSportAddition(id) ==
    is_surprise_round(id) \/ is_max_challenge(id) \/ is_vinyasa_transition(id)

\* the score with the limits of 14, 7 and 3 days counted to the lower class
get_freshness_score_strict(ls) ==
    IF ls = NeverSelected THEN 10
    ELSE LET days_since == Today - ls
         IN  IF days_since > 14 THEN 10
             ELSE IF days_since > 7 THEN 8
             ELSE IF days_since > 3 THEN 6
             ELSE 3

\* WorkoutScript.get_freshness_score, in tenths; ls is last_selected
get_freshness_score(ls) ==
    IF ls = NeverSelected THEN 10
    ELSE LET days_since == Today - ls
         IN  IF days_since >= 14 THEN 10
             ELSE IF days_since >= 7 THEN 8
             ELSE IF days_since >= 3 THEN 6
             ELSE 3

\* mark_selected that increments the instance and never saves it
mark_selected_unsaved(ts, id) == ts

\* WorkoutScript.mark_selected applied to the usage counters ts
mark_selected(ts, id) == [ts EXCEPT ![id] = @ + 1]

RECURSIVE MarkAll(_, _)
\* mark_selected for every block of the sequence ids, in order
MarkAll(ts, ids) ==
    IF ids = << >> THEN ts ELSE MarkAll(mark_selected(ts, Head(ids)), Tail(ids))

\* last_selected after mark_selected of every block of ids
StampAll(ls, ids) == [id \in DOMAIN ls |-> IF id \in Range(ids) THEN Today ELSE ls[id]]

\* WorkoutTemplate.get_all_possible_categories
get_all_possible_categories(rule) ==
    <<rule.primary_category>> \o rule.alternative_categories

\* ScriptCategory.objects.filter(training_type=tt, name__icontains=pat,
\* is_active=True).first()
FirstActiveCategoryContaining(tt, pat) ==
    LET hits == {c \in CategoryIds :
                    /\ Categories[c].training_type = tt
                    /\ Categories[c].is_active
                    /\ Contains(LowerName[c], Lower(pat))}
    IN  IF hits = {} THEN NoCategory
        ELSE CHOOSE c \in hits : \A d \in hits : c <= d

\* ScriptCategory.objects.filter(training_type=tt, name=nm, is_active=True).first()
FirstActiveCategoryNamed(tt, nm) ==
    LET hits == {c \in CategoryIds :
                    /\ Categories[c].training_type = tt
                    /\ Categories[c].is_active
                    /\ Categories[c].name = nm}
    IN  IF hits = {} THEN NoCategory
        ELSE CHOOSE c \in hits : \A d \in hits : c <= d

\* the surprise category looked up by the exact name 'surprise' instead of
\* name__icontains
SurpriseCategory_exact ==
    [tt \in TrainingTypes |-> FirstActiveCategoryNamed(tt, P_surprise)]

\* the four category queries of get_special_round_category_to_add_after,
\* for every discipline
SurpriseCategory ==
    [tt \in TrainingTypes |-> FirstActiveCategoryContaining(tt, P_surprise)]
MaxChallengeCategory ==
    [tt \in TrainingTypes |-> FirstActiveCategoryContaining(tt, P_max)]
VinyasaSittingCategory ==
    [tt \in TrainingTypes |-> FirstActiveCategoryNamed(tt, N_py_vinyasa_s2sit)]
VinyasaStandingCategory ==
    [tt \in TrainingTypes |-> FirstActiveCategoryNamed(tt, N_py_vinyasa_s2s)]

\* WorkoutTemplate.get_special_round_category_to_add_after
get_special_round_category_to_add_after(rule, tt) ==
    IF rule.add_surprise_round_after
    THEN SurpriseCategory[tt]
    ELSE IF rule.add_max_challenge_after
    THEN MaxChallengeCategory[tt]
    ELSE IF rule.add_vinyasa_transition_after /\ rule.vinyasa_type # "none"
    THEN IF rule.vinyasa_type = "standing_to_sitting"
         THEN VinyasaSittingCategory[tt]
         ELSE IF rule.vinyasa_type = "standing_to_standing"
         THEN VinyasaStandingCategory[tt]
         ELSE NoCategory
    ELSE NoCategory

\* ------------------------------------------------------------------------
\* generator/branding.py
\* ------------------------------------------------------------------------
no_round_categories ==
    <<P_warmup, P_warm_up, P_cooldown, P_cool_down, P_stretch, P_relax,
      P_savasana, P_mindfulness, P_connecting, P_surprise, P_vinyasa, P_max>>

\* FoxingFitBranding.should_use_round_numbering, for the name of every category
should_use_round_numbering ==
    [c \in CategoryIds |-> ~ContainsAny(LowerName[c], no_round_categories)]

\* the special types that detect_special_round_type returns, spelled out
SpecialTypeName ==
    [surprise |->
         <<"s","u","r","p","r","i","s","e">>,
     max_challenge |->
         <<"m","a","x","_","c","h","a","l","l","e","n","g","e">>,
     vinyasa_s2s |->
         <<"v","i","n","y","a","s","a","_","s","2","s">>,
     vinyasa_s2sit |->
         <<"v","i","n","y","a","s","a","_","s","2","s","i","t">>,
     vinyasa |->
         <<"v","i","n","y","a","s","a">>]

\* the dictionary `headers` of format_special_round_header, without the
\* emoji and the space each text starts with
headers ==
    [surprise |->
         <<"S","U","R","P","R","I","S","E"," ","R","O","N","D","E">>,
     max_challenge |->
         <<"M","A","X"," ","C","H","A","L","L","E","N","G","E">>,
     vinyasa_s2s |->
         <<"V","I","N","Y","A","S","A"," ","O","V","E","R","G","A","N","G",
           " ","(","S","t","a","a","n","d"," ","n","a","a","r"," ","S","t",
           "a","a","n","d",")">>,
     vinyasa_s2sit |->
         <<"V","I","N","Y","A","S","A"," ","O","V","E","R","G","A","N","G",
           " ","(","S","t","a","a","n","d"," ","n","a","a","r"," ","Z","i",
           "t","t","e","n","d",")">>,
     vinyasa |->
         <<"V","I","N","Y","A","S","A"," ","O","V","E","R","G","A","N","G">>]

\* FoxingFitBranding.format_special_round_header: the text put before the
\* title for the special type spelled special_type (emoji and space left
\* out as in `headers`)
format_special_round_header(special_type) ==
    IF \E k \in DOMAIN headers : SpecialTypeName[k] = special_type
    THEN headers[CHOOSE k \in DOMAIN headers : SpecialTypeName[k] = special_type]
    ELSE Upper(special_type)

\* FoxingFitBranding.detect_special_round_type
detect_special_round_type(id) ==
    IF is_surprise_round(id) THEN "surprise"
    ELSE IF is_max_challenge(id) THEN "max_challenge"
    ELSE IF is_vinyasa_transition(id)
    THEN IF Contains(LowerName[Script(id).script_category], P_s2s)
         THEN "vinyasa_s2s"
         ELSE IF Contains(LowerName[Script(id).script_category], P_s2sit)
         THEN "vinyasa_s2sit"
         ELSE "vinyasa"
    ELSE "none"

\* ------------------------------------------------------------------------
\* generator/generator.py: queries and selection
\* ------------------------------------------------------------------------

\* the query without .exclude(id__in=self.used_script_ids)
ActiveScripts_no_exclude(lib, tt, cats, used) ==
    {id \in lib : /\ Script(id).type = tt
                  /\ Script(id).script_category \in cats
                  /\ Script(id).is_active}

\* WorkoutScript.objects.filter(type=tt, script_category__in=cats,
\* is_active=True).exclude(id__in=used) over the repository lib
ActiveScripts(lib, tt, cats, used) ==
    {id \in lib : /\ Script(id).type = tt
                  /\ Script(id).script_category \in cats
                  /\ Script(id).is_active
                  /\ id \notin used}

\* position of d before c in a list sorted by freshness, descending, with
\* the stable sort keeping the queryset order (Meta.ordering) among equals
Ahead(ls, d, c) ==
    \/ get_freshness_score(ls[d]) > get_freshness_score(ls[c])
    \/ /\ get_freshness_score(ls[d]) = get_freshness_score(ls[c])
       /\ QuerysetBefore[d][c]

\* random.choice over all the candidates instead of the first three
select_from_candidates_any(ls, candidates) == candidates

\* _select_from_candidates_using_freshness: the blocks random.choice may
\* return, i.e. the first three of the sorted candidates
select_from_candidates_using_freshness(ls, candidates) ==
    {c \in candidates :
        Cardinality({d \in candidates : Ahead(ls, d, c)}) < TopFreshCount}

\* the selector without its first phase: any goal is taken at once
select_best_script_for_category_any_goal(lib, ls, cat, g, tt, max_duration, used) ==
    LET pool == {id \in ActiveScripts(lib, tt, {cat}, used) :
                    Duration(id) <= max_duration}
    IN  IF pool # {}
        THEN select_from_candidates_using_freshness(ls, pool)
        ELSE {}

\* select_best_script_for_category: the blocks the call may return; the
\* empty set stands for None
select_best_script_for_category(lib, ls, cat, g, tt, max_duration, used) ==
    LET pool == {id \in ActiveScripts(lib, tt, {cat}, used) :
                    Duration(id) <= max_duration}
        primary_candidates == {id \in pool : Script(id).goal \in {g, "allround"}}
    IN  IF primary_candidates # {}
        THEN select_from_candidates_using_freshness(ls, primary_candidates)
        ELSE IF pool # {}
        THEN select_from_candidates_using_freshness(ls, pool)
        ELSE {}

\* the loop over the categories without the early return: the last
\* category with a result wins
select_best_script_from_categories_last(lib, ls, cats, g, tt, max_duration, used) ==
    LET hits == {k \in 1..Len(cats) :
                    select_best_script_for_category(
                        lib, ls, cats[k], g, tt, max_duration, used) # {}}
    IN  IF hits = {} THEN {}
        ELSE select_best_script_for_category(
                 lib, ls, cats[CHOOSE k \in hits : \A j \in hits : k >= j],
                 g, tt, max_duration, used)

\* select_best_script_from_categories: first category of the list with a
\* result wins
select_best_script_from_categories(lib, ls, cats, g, tt, max_duration, used) ==
    LET hits == {k \in 1..Len(cats) :
                    select_best_script_for_category(
                        lib, ls, cats[k], g, tt, max_duration, used) # {}}
    IN  IF hits = {} THEN {}
        ELSE select_best_script_for_category(
                 lib, ls, cats[CHOOSE k \in hits : \A j \in hits : k <= j],
                 g, tt, max_duration, used)

\* find_special_round_script: the freshest unused active block of the
\* special category, or NoScript
find_special_round_script(lib, ls, tt, cat, used) ==
    LET special_scripts == ActiveScripts(lib, tt, {cat}, used)
    IN  IF cat = NoCategory \/ special_scripts = {} THEN NoScript
        ELSE CHOOSE c \in special_scripts :
                 \A d \in special_scripts : ~Ahead(ls, d, c)

special_patterns(tt) ==
    IF tt = "kickboxing" THEN <<P_surprise, P_kb_surprise>>
    ELSE IF tt = "power_yoga" THEN <<P_vinyasa, P_py_vinyasa>>
    ELSE IF tt = "calisthenics" THEN <<P_max, P_challenge, P_cal_max>>
    ELSE << >>

\* get_special_category_names, for every discipline
get_special_category_names ==
    [tt \in TrainingTypes |->
        {Categories[c].name : c \in {d \in CategoryIds :
            /\ Categories[d].training_type = tt
            /\ Categories[d].is_active
            /\ \E k \in 1..Len(special_patterns(tt)) :
                   Contains(LowerName[d], Lower(special_patterns(tt)[k]))}}]

\* the categories of the searches without .exclude(name__in=special_categories)
regular_categories_all ==
    [tt \in TrainingTypes |->
        {c \in CategoryIds : /\ Categories[c].training_type = tt
                             /\ Categories[c].is_active}]

\* regular_categories of the fallback search and of the filler search, for
\* every discipline
regular_categories ==
    [tt \in TrainingTypes |->
        {c \in CategoryIds : /\ Categories[c].training_type = tt
                             /\ Categories[c].is_active
                             /\ Categories[c].name \notin get_special_category_names[tt]}]

\* candidates of find_fallback_script_for_training_type and
\* filler_candidates of add_filler_content_to_workout
regular_candidates(lib, tt, g, max_remaining_duration, used) ==
    {id \in ActiveScripts(lib, tt, regular_categories[tt], used) :
        /\ Script(id).goal \in {g, "allround"}
        /\ Duration(id) <= max_remaining_duration}

\* find_fallback_script_for_training_type: the blocks random.choice may return
find_fallback_script_for_training_type(lib, tt, g, max_remaining_duration, used) ==
    regular_candidates(lib, tt, g, max_remaining_duration, used)

\* minimum of the durations of a non-empty set of blocks
ShortestDuration(ids) ==
    Duration(CHOOSE c \in ids : \A d \in ids : Duration(c) <= Duration(d))

\* one iteration of the loop of _estimate_required_steps_duration
EstimateStep(lib, rule, tt, used) ==
    LET cands == ActiveScripts(lib, tt, Range(get_all_possible_categories(rule)), used)
        special_category == get_special_round_category_to_add_after(rule, tt)
        specials == ActiveScripts(lib, tt, {special_category}, {})
    IN  (IF cands # {} THEN ShortestDuration(cands) ELSE DefaultStepEstimate)
        + (IF special_category = NoCategory THEN 0
           ELSE IF specials # {} THEN ShortestDuration(specials)
           ELSE DefaultSpecialEstimate)

RECURSIVE estimate_required_steps_duration(_, _, _, _)
\* _estimate_required_steps_duration
estimate_required_steps_duration(lib, required_steps, tt, used) ==
    IF required_steps = << >> THEN 0
    ELSE EstimateStep(lib, Head(required_steps), tt, used)
         + estimate_required_steps_duration(lib, Tail(required_steps), tt, used)

\* ------------------------------------------------------------------------
\* generator/generator.py: duration management and ordering
\* ------------------------------------------------------------------------

essential_patterns ==
    <<P_warmup, P_warm_up, P_cooldown, P_cool_down, P_stretch, P_savasana,
      P_mindfulness, P_connecting>>
warmup_patterns == <<P_warmup, P_warm_up, P_connecting, P_sun_greeting>>
cooldown_patterns ==
    <<P_cooldown, P_cool_down, P_stretch, P_relax, P_savasana, P_mindfulness>>
advanced_terms == <<P_handstand, P_lever, P_planche>>

\* the pattern tests of is_essential_exercise_script, is_warmup_script and
\* is_cooldown_script on the name of every category
EssentialCategory ==
    [c \in CategoryIds |-> ContainsAny(LowerName[c], essential_patterns)]
WarmupCategory ==
    [c \in CategoryIds |-> ContainsAny(LowerName[c], warmup_patterns)]
CooldownCategory ==
    [c \in CategoryIds |-> ContainsAny(LowerName[c], cooldown_patterns)]

is_essential_exercise_script(id) == EssentialCategory[Script(id).script_category]
is_warmup_script(id) == WarmupCategory[Script(id).script_category]
is_cooldown_script(id) == CooldownCategory[Script(id).script_category]

\* the test of trim_workout_to_target_duration for an essential block
IsEssential(id) == IsSportAddition(id) \/ is_essential_exercise_script(id)
IsOptional(id) == ~IsEssential(id)

\* list.insert(position, x) with a 0-based position
InsertAt(s, position, x) ==
    SubSeq(s, 1, position) \o <<x>> \o SubSeq(s, position + 1, Len(s))

\* the bucket apply_logical_exercise_ordering puts the blocks of a category in
CategoryBucket ==
    [c \in CategoryIds |->
        IF Contains(LowerName[c], P_warmup) THEN "warmup"
        ELSE IF CatIsMaxChallenge(c) THEN "special"
        ELSE IF ContainsAny(LowerName[c], advanced_terms) THEN "advanced"
        ELSE "basic"]

OrderingBucket(id) == CategoryBucket[Script(id).script_category]

IsBucketWarmup(id) == OrderingBucket(id) = "warmup"
IsBucketBasic(id) == OrderingBucket(id) = "basic"
IsBucketAdvanced(id) == OrderingBucket(id) = "advanced"
IsBucketSpecial(id) == OrderingBucket(id) = "special"

RECURSIVE InsertSpecials(_, _, _)
\* the loop that re-inserts the MAX challenge blocks at their recorded positions
InsertSpecials(ordered_base, scripts, i) ==
    IF i > Len(scripts) THEN ordered_base
    ELSE IF IsBucketSpecial(scripts[i])
    THEN LET position == Cardinality({j \in 1..(i - 1) : ~IsBucketSpecial(scripts[j])})
         IN  InsertSpecials(
                 InsertAt(ordered_base, Min2(position, Len(ordered_base)), scripts[i]),
                 scripts, i + 1)
    ELSE InsertSpecials(ordered_base, scripts, i + 1)

\* apply_logical_exercise_ordering
apply_logical_exercise_ordering(scripts) ==
    InsertSpecials(SelectSeq(scripts, IsBucketWarmup)
                       \o SelectSeq(scripts, IsBucketBasic)
                       \o SelectSeq(scripts, IsBucketAdvanced),
                   scripts, 1)

\* apply_sport_specific_intelligence: the list returned
apply_sport_specific_intelligence(scripts, tt) ==
    IF tt = "calisthenics" THEN apply_logical_exercise_ordering(scripts)
    ELSE scripts

IsMainScript(id) == ~is_warmup_script(id) /\ ~is_cooldown_script(id)
IsCooldownOnly(id) == ~is_warmup_script(id) /\ is_cooldown_script(id)

\* the reordering with the cooldown blocks placed before the main blocks
reorder_scripts_logically_for_sport_main_last(scripts) ==
    IF scripts = << >> THEN scripts
    ELSE SelectSeq(scripts, is_warmup_script)
         \o SelectSeq(scripts, IsCooldownOnly)
         \o SelectSeq(scripts, IsMainScript)

\* reorder_scripts_logically_for_sport
reorder_scripts_logically_for_sport(scripts) ==
    IF scripts = << >> THEN scripts
    ELSE LET main_scripts == SelectSeq(scripts, IsMainScript)
         IN  SelectSeq(scripts, is_warmup_script)
             \o (IF Script(scripts[1]).type = "calisthenics"
                 THEN apply_logical_exercise_ordering(main_scripts)
                 ELSE main_scripts)
             \o SelectSeq(scripts, IsCooldownOnly)

RECURSIVE KeepOptional_break(_, _, _)
\* the loop that stops at the first optional block that does not fit
KeepOptional_break(optional_scripts, current_duration, max_duration) ==
    IF optional_scripts = << >> THEN << >>
    ELSE LET o == Head(optional_scripts)
         IN  IF current_duration + Duration(o) <= max_duration
             THEN <<o>> \o KeepOptional_break(Tail(optional_scripts),
                                              current_duration + Duration(o),
                                              max_duration)
             ELSE << >>

RECURSIVE KeepOptional(_, _, _)
\* the loop of trim_workout_to_target_duration that adds optional blocks back
KeepOptional(optional_scripts, current_duration, max_duration) ==
    IF optional_scripts = << >> THEN << >>
    ELSE LET o == Head(optional_scripts)
         IN  IF current_duration + Duration(o) <= max_duration
             THEN <<o>> \o KeepOptional(Tail(optional_scripts),
                                        current_duration + Duration(o), max_duration)
             ELSE KeepOptional(Tail(optional_scripts), current_duration, max_duration)

\* trim_workout_to_target_duration
trim_workout_to_target_duration(scripts, max_duration) ==
    IF SumDuration(scripts) <= max_duration THEN scripts
    ELSE LET essential_scripts == SelectSeq(scripts, IsEssential)
             optional_scripts == SelectSeq(scripts, IsOptional)
         IN  reorder_scripts_logically_for_sport(
                 essential_scripts
                 \o KeepOptional(optional_scripts, SumDuration(essential_scripts),
                                 max_duration))

RECURSIVE FillerLoop_unchecked(_, _)
\* the loop without the test candidate.duration_minutes <= needed_duration
FillerLoop_unchecked(candidates, needed_duration) ==
    IF candidates = << >> THEN << >>
    ELSE LET c == Head(candidates)
         IN  IF needed_duration - Duration(c) <= FillerCloseEnough
             THEN <<c>>
             ELSE <<c>> \o FillerLoop_unchecked(Tail(candidates),
                                                needed_duration - Duration(c))

RECURSIVE FillerLoop(_, _)
\* the loop of add_filler_content_to_workout over the ordered candidates:
\* the blocks appended
FillerLoop(candidates, needed_duration) ==
    IF candidates = << >> THEN << >>
    ELSE LET c == Head(candidates)
         IN  IF Duration(c) <= needed_duration
             THEN IF needed_duration - Duration(c) <= FillerCloseEnough
                  THEN <<c>>
                  ELSE <<c>> \o FillerLoop(Tail(candidates),
                                           needed_duration - Duration(c))
             ELSE FillerLoop(Tail(candidates), needed_duration)

\* the candidates delivered in any order, without order_by
OrderedByDuration_any(ids) ==
    {s \in [1..Cardinality(ids) -> ids] :
        \A i, j \in DOMAIN s : i < j => s[i] # s[j]}

\* the orders in which order_by('duration_minutes') may deliver a set of
\* blocks: ascending duration, blocks of equal duration in any order
OrderedByDuration(ids) ==
    {s \in [1..Cardinality(ids) -> ids] :
        /\ \A i, j \in DOMAIN s : i < j =>
              /\ s[i] # s[j]
              /\ Duration(s[i]) <= Duration(s[j])}

\* ------------------------------------------------------------------------
\* generator/generator.py and generator/models.py: session and result
\* ------------------------------------------------------------------------

RECURSIVE compile_final_workout_script(_, _)
\* compile_final_workout_script: the header of every block, in order, with
\* the round number given to it (0 when the header carries no number)
compile_final_workout_script(scripts, round_counter) ==
    IF scripts = << >> THEN << >>
    ELSE LET s == Head(scripts)
         IN  IF should_use_round_numbering[Script(s).script_category]
             THEN <<[script |-> s, header |-> "round", round |-> round_counter]>>
                  \o compile_final_workout_script(Tail(scripts), round_counter + 1)
             ELSE <<[script |-> s,
                     header |-> IF detect_special_round_type(s) # "none"
                                THEN detect_special_round_type(s)
                                ELSE "category",
                     round |-> 0]>>
                  \o compile_final_workout_script(Tail(scripts), round_counter)

\* The fields of a WorkoutSession are binary floating-point numbers.  For a
\* target tgt from 15.0 to 120.0 and a flexibility of 3.0, 4.0 or 5.0 the
\* difference target_duration - time_flexibility is the float nearest to
\* (tgt - flex) / 10, except just above 16, 32 and 64 minutes, where it is
\* the next float above it; the sum target_duration + time_flexibility is
\* never below the float nearest to (tgt + flex) / 10.
DifferenceRoundsUp(tgt, flex) ==
    /\ flex \in {FlexShort, FlexMedium, FlexLong}
    /\ tgt \in {b + 5 * j : b \in {161, 322, 644}, j \in 0..((flex \div 5) - 1)}

\* total_duration < target_duration - time_flexibility, on floats
BelowMinimum(total, tgt, flex) ==
    \/ total < tgt - flex
    \/ total = tgt - flex /\ DifferenceRoundsUp(tgt, flex)

\* WorkoutSession.get_time_status: the classification
get_time_status(total, tgt, flex) ==
    IF BelowMinimum(total, tgt, flex) THEN "Short"
    ELSE IF total > tgt + flex THEN "Long"
    ELSE "Perfect"

\* get_sport_additions_summary
get_sport_additions_summary(adds) ==
    [surprise_rounds_added |-> adds.surprise_rounds_added,
     vinyasa_transitions_added |-> adds.vinyasa_transitions_added,
     difficulty_reordered |-> adds.difficulty_reordered > 0,
     max_challenge_moved_last |-> adds.max_challenge_moved_last > 0]

\* the SessionScript rows of create_workout_session_record and the 'scripts'
\* entry of compile_generation_results
SessionScripts(final_scripts) ==
    [i \in 1..Len(final_scripts) |->
        [workout_script |-> final_scripts[i],
         sequence_order |-> i,
         is_sport_addition |-> IsSportAddition(final_scripts[i])]]

\* create_workout_session_record: the WorkoutSession row
create_workout_session_record(final_scripts, tt, g, tgt, flex, adds) ==
    [training_type |-> tt,
     goal |-> g,
     total_duration |-> SumDuration(final_scripts),
     target_duration |-> tgt,
     time_flexibility |-> flex,
     compiled_script |-> compile_final_workout_script(final_scripts, 1),
     sport_additions_applied |-> get_sport_additions_summary(adds),
     session_scripts |-> SessionScripts(final_scripts)]

\* the result with content_warnings added only when a substitution was made
compile_generation_results_subs_only(session, final_scripts, tt, tgt, adds, missing, subs) ==
    [training_type |-> tt,
     goal |-> session.goal,
     total_duration |-> session.total_duration,
     target_duration |-> tgt,
     time_status |-> get_time_status(session.total_duration,
                                     session.target_duration,
                                     session.time_flexibility),
     scripts |-> SessionScripts(final_scripts),
     compiled_script |-> session.compiled_script,
     sport_specific_additions |-> get_sport_additions_summary(adds),
     content_warnings |->
         IF subs # << >>
         THEN <<[missing_categories |-> missing, substitutions_made |-> subs]>>
         ELSE << >>]

\* compile_generation_results; content_warnings is the empty sequence when
\* the key is absent
compile_generation_results(session, final_scripts, tt, tgt, adds, missing, subs) ==
    [training_type |-> tt,
     goal |-> session.goal,
     total_duration |-> session.total_duration,
     target_duration |-> tgt,
     time_status |-> get_time_status(session.total_duration,
                                     session.target_duration,
                                     session.time_flexibility),
     scripts |-> SessionScripts(final_scripts),
     compiled_script |-> session.compiled_script,
     sport_specific_additions |-> get_sport_additions_summary(adds),
     content_warnings |->
         IF missing # << >>
         THEN <<[missing_categories |-> missing, substitutions_made |-> subs]>>
         ELSE << >>]

\* ------------------------------------------------------------------------
\* Initial state: a repository, a template and a call
\* ------------------------------------------------------------------------
NoProbe == [fn |-> "none"]

NoAdditions ==
    [surprise_rounds_added |-> 0, max_challenge_added |-> 0,
     vinyasa_transitions_added |-> 0, difficulty_reordered |-> 0,
     max_challenge_moved_last |-> 0]

Init ==
    /\ training_type \in RequestTypes
    /\ goal \in RequestGoals
    /\ \/ /\ target \in MainTargets
          /\ present \in {S \in SUBSET LibraryPool(training_type) :
                             Cardinality(S) <= MaxLibrary}
       \/ /\ target \in LimitTargets \cup FlexTargets
          /\ present \in {S \in SUBSET LibraryPool(training_type) :
                             Cardinality(S) <= MaxLimitLibrary}
    /\ template_rules \in TemplatesOf(training_type)
    /\ pc = "start"
    /\ error = "none"
    /\ target_duration = 600
    /\ time_flexibility = FlexLong
    /\ used_script_ids = {}
    /\ sport_additions = NoAdditions
    /\ missing_categories = << >>
    /\ fallback_substitutions = << >>
    /\ selected_scripts = << >>
    /\ total_duration = 0
    /\ optional_budget = 0
    /\ optional_used = 0
    /\ step = 1
    /\ times_selected = [id \in ScriptIds |-> 0]
    /\ last_selected = [id \in ScriptIds |-> ScriptPool[id].last_selected]
    /\ sessions = << >>
    /\ result = << >>
    /\ selection_log = << >>
    /\ balance_input = << >>
    /\ run = 1
    /\ prior = << >>
    /\ probe = NoProbe

\* ------------------------------------------------------------------------
\* generate_workout_with_custom_duration, step by step
\* ------------------------------------------------------------------------
max_allowed == target_duration + time_flexibility
min_allowed == target_duration - time_flexibility

\* the deviation with the limits 30 and 45 counted to the next class
TimeFlexibilityFor_strict(tgt) ==
    IF tgt < ShortTargetLimit THEN FlexShort
    ELSE IF tgt < MediumTargetLimit THEN FlexMedium
    ELSE FlexLong

\* the allowed deviation chosen for a target
TimeFlexibilityFor(tgt) ==
    IF tgt <= ShortTargetLimit THEN FlexShort
    ELSE IF tgt <= MediumTargetLimit THEN FlexMedium
    ELSE FlexLong

\* the test with the limits themselves rejected
DurationOutOfRange_exclusive(tgt) ==
    tgt <= MinTargetDuration \/ tgt >= MaxTargetDuration

\* line 161: the test that rejects a target duration
DurationOutOfRange(tgt) == tgt < MinTargetDuration \/ tgt > MaxTargetDuration

IsRequiredActive(rule) == rule.is_required /\ rule.is_active
IsCategoryActive(c) == Categories[c].is_active

\* lines 159-162: the duration check
RejectDuration ==
    /\ pc = "start"
    /\ DurationOutOfRange(target)
    /\ target_duration' = target
    /\ pc' = "failed"
    /\ error' = "duration"
    /\ UNCHANGED <<present, template_rules, training_type, goal, target,
                   time_flexibility, used_script_ids, sport_additions,
                   missing_categories, fallback_substitutions, selected_scripts,
                   total_duration, optional_budget, optional_used, step,
                   times_selected, last_selected, sessions, result,
                   selection_log, balance_input,
                   run, prior, probe>>

\* lines 164-182: the template query finds no row
RejectNoTemplate ==
    /\ pc = "start"
    /\ ~DurationOutOfRange(target)
    /\ template_rules = << >>
    /\ target_duration' = target
    /\ time_flexibility' = TimeFlexibilityFor(target)
    /\ pc' = "failed"
    /\ error' = "no_template"
    /\ UNCHANGED <<present, template_rules, training_type, goal, target,
                   used_script_ids, sport_additions,
                   missing_categories, fallback_substitutions, selected_scripts,
                   total_duration, optional_budget, optional_used, step,
                   times_selected, last_selected, sessions, result,
                   selection_log, balance_input,
                   run, prior, probe>>

\* lines 164-182 and 252-290: the call is accepted and the budget is planned
PlanBudget ==
    /\ pc = "start"
    /\ ~DurationOutOfRange(target)
    /\ template_rules # << >>
    /\ target_duration' = target
    /\ time_flexibility' = TimeFlexibilityFor(target)
    /\ LET estimated_required_duration ==
               estimate_required_steps_duration(
                   present, SelectSeq(template_rules, IsRequiredActive),
                   training_type, used_script_ids)
       IN  optional_budget' =
               Max2(0, target + TimeFlexibilityFor(target) - estimated_required_duration)
    /\ optional_used' = 0
    /\ total_duration' = 0
    /\ selected_scripts' = << >>
    /\ step' = 1
    /\ pc' = "walk"
    /\ UNCHANGED <<present, template_rules, training_type, goal, target, error,
                   used_script_ids, sport_additions, missing_categories,
                   fallback_substitutions, times_selected, last_selected,
                   sessions, result, selection_log, balance_input,
                   run, prior, probe>>

\* what one iteration of the template loop changes
WalkUpdate(appended, log, new_total, new_optional_used, missing, subs, adds) ==
    /\ selected_scripts' = selected_scripts \o appended
    /\ used_script_ids' = used_script_ids \cup Range(appended)
    /\ times_selected' = MarkAll(times_selected, appended)
    /\ last_selected' = StampAll(last_selected, appended)
    /\ selection_log' = selection_log \o log
    /\ total_duration' = new_total
    /\ optional_used' = new_optional_used
    /\ missing_categories' = missing_categories \o missing
    /\ fallback_substitutions' = fallback_substitutions \o subs
    /\ sport_additions' = adds
    /\ step' = step + 1
    /\ UNCHANGED <<present, template_rules, training_type, goal, target, pc,
                   error, target_duration, time_flexibility, optional_budget,
                   sessions, result, balance_input,
                   run, prior, probe>>

\* `continue` without a selection
SkipStep ==
    WalkUpdate(<< >>, << >>, total_duration, optional_used, << >>, << >>,
               sport_additions)

\* track_sport_addition for the special block sp (NoScript: nothing added)
TrackSpecial(adds, sp) ==
    IF sp = NoScript THEN adds
    ELSE IF is_surprise_round(sp)
    THEN [adds EXCEPT !.surprise_rounds_added = @ + 1]
    ELSE IF is_max_challenge(sp)
    THEN [adds EXCEPT !.max_challenge_added = @ + 1]
    ELSE IF is_vinyasa_transition(sp)
    THEN [adds EXCEPT !.vinyasa_transitions_added = @ + 1]
    ELSE adds

\* _process_special_rounds_after_step: the special block appended after
\* the block sel of the step, or NoScript
process_special_rounds_after_step(rule, sel) ==
    LET special_category ==
            get_special_round_category_to_add_after(rule, training_type)
    IN  IF special_category # NoCategory /\ Categories[special_category].is_active
        THEN find_special_round_script(present, last_selected, training_type,
                                       special_category, used_script_ids \cup {sel})
        ELSE NoScript

\* the special block put in front of the block of its step
ProcessSelected_special_first(rule, sel) ==
    LET sp == process_special_rounds_after_step(rule, sel)
        appended == IF sp = NoScript THEN <<sel>> ELSE <<sp, sel>>
        log == IF sp = NoScript
               THEN <<[id |-> sel, via |-> "template", step |-> step]>>
               ELSE <<[id |-> sp, via |-> "special", step |-> step],
                      [id |-> sel, via |-> "template", step |-> step]>>
    IN  WalkUpdate(appended, log,
                   SumDuration(selected_scripts \o appended),
                   IF rule.is_required THEN optional_used
                   ELSE optional_used + Duration(sel),
                   << >>, << >>, TrackSpecial(sport_additions, sp))

\* lines 355-375: the step selected the block sel
ProcessSelected(rule, sel) ==
    LET sp == process_special_rounds_after_step(rule, sel)
        appended == IF sp = NoScript THEN <<sel>> ELSE <<sel, sp>>
        log == IF sp = NoScript
               THEN <<[id |-> sel, via |-> "template", step |-> step]>>
               ELSE <<[id |-> sel, via |-> "template", step |-> step],
                      [id |-> sp, via |-> "special", step |-> step]>>
    IN  WalkUpdate(appended, log,
                   SumDuration(selected_scripts \o appended),
                   IF rule.is_required THEN optional_used
                   ELSE optional_used + Duration(sel),
                   << >>, << >>, TrackSpecial(sport_additions, sp))

\* _handle_missing_required_step; the caller recomputes the running total
\* after it only when recompute is TRUE (line 381, not line 319)
handle_missing_required_step(rule, max_remaining_duration, recompute) ==
    LET missing == <<[category |-> rule.primary_category, required |-> TRUE]>>
        candidates == find_fallback_script_for_training_type(
                          present, training_type, goal, max_remaining_duration,
                          used_script_ids)
    IN  IF candidates = {}
        THEN WalkUpdate(<< >>, << >>,
                        IF recompute THEN SumDuration(selected_scripts)
                        ELSE total_duration,
                        optional_used, missing, << >>, sport_additions)
        ELSE \E fallback_script \in candidates :
                WalkUpdate(<<fallback_script>>,
                           <<[id |-> fallback_script, via |-> "fallback", step |-> step]>>,
                           IF recompute
                           THEN SumDuration(selected_scripts \o <<fallback_script>>)
                           ELSE total_duration,
                           optional_used, missing,
                           <<[missing |-> rule.primary_category,
                              used |-> Script(fallback_script).script_category,
                              script |-> fallback_script]>>,
                           sport_additions)

InWalk == pc = "walk" /\ step <= Len(template_rules)
active_categories(rule) ==
    SelectSeq(get_all_possible_categories(rule), IsCategoryActive)

\* lines 298-300: an inactive step is skipped
WalkInactiveStep ==
    /\ InWalk
    /\ ~template_rules[step].is_active
    /\ SkipStep

\* lines 315-320: no category of the step is active
WalkNoActiveCategory ==
    /\ InWalk
    /\ template_rules[step].is_active
    /\ active_categories(template_rules[step]) = << >>
    /\ IF template_rules[step].is_required
       THEN handle_missing_required_step(template_rules[step],
                                         max_allowed - total_duration, FALSE)
       ELSE SkipStep

\* lines 323-331 and 355-381: a required step
WalkRequiredStep ==
    /\ InWalk
    /\ template_rules[step].is_active
    /\ active_categories(template_rules[step]) # << >>
    /\ template_rules[step].is_required
    /\ LET remaining_time == max_allowed - total_duration
           choices == select_best_script_from_categories(
                          present, last_selected,
                          active_categories(template_rules[step]),
                          goal, training_type, remaining_time, used_script_ids)
       IN  IF choices # {}
           THEN \E sel \in choices : ProcessSelected(template_rules[step], sel)
           ELSE handle_missing_required_step(template_rules[step],
                                             max_allowed - total_duration, TRUE)

\* lines 333-352 and 355-383: an optional step
WalkOptionalStep ==
    /\ InWalk
    /\ template_rules[step].is_active
    /\ active_categories(template_rules[step]) # << >>
    /\ ~template_rules[step].is_required
    /\ LET available_time == Min2(optional_budget - optional_used,
                                  max_allowed - total_duration)
           choices == select_best_script_from_categories(
                          present, last_selected,
                          active_categories(template_rules[step]),
                          goal, training_type, available_time, used_script_ids)
       IN  IF available_time < MinOptionalTime \/ choices = {}
           THEN SkipStep
           ELSE \E sel \in choices : ProcessSelected(template_rules[step], sel)

\* lines 204-211: the walk is over, apply_sport_specific_intelligence
ApplySportIntelligence ==
    /\ pc = "walk"
    /\ step > Len(template_rules)
    /\ LET enhanced_scripts ==
               apply_sport_specific_intelligence(selected_scripts, training_type)
       IN  /\ selected_scripts' = enhanced_scripts
           /\ balance_input' = enhanced_scripts
           /\ sport_additions' =
                  IF training_type = "calisthenics"
                     /\ enhanced_scripts # selected_scripts
                  THEN [sport_additions EXCEPT !.difficulty_reordered = @ + 1]
                  ELSE sport_additions
    /\ pc' = "balance"
    /\ UNCHANGED <<present, template_rules, training_type, goal, target, error,
                   target_duration, time_flexibility, used_script_ids,
                   missing_categories, fallback_substitutions, total_duration,
                   optional_budget, optional_used, step, times_selected,
                   last_selected, sessions, result, selection_log,
                   run, prior, probe>>

FillerLog(added) ==
    [i \in 1..Len(added) |-> [id |-> added[i], via |-> "filler", step |-> 0]]

\* apply_duration_management, total below the minimum:
\* add_filler_content_to_workout
AddFiller ==
    /\ pc = "balance"
    /\ SumDuration(selected_scripts) < min_allowed
    /\ LET needed == min_allowed - SumDuration(selected_scripts)
           filler_candidates ==
               regular_candidates(present, training_type, goal, needed,
                                  used_script_ids)
       IN  \E ordered \in OrderedByDuration(filler_candidates) :
               LET added == FillerLoop(ordered, needed)
               IN  /\ selected_scripts' = selected_scripts \o added
                   /\ used_script_ids' = used_script_ids \cup Range(added)
                   /\ times_selected' = MarkAll(times_selected, added)
                   /\ last_selected' = StampAll(last_selected, added)
                   /\ selection_log' = selection_log \o FillerLog(added)
    /\ pc' = "finish"
    /\ UNCHANGED <<present, template_rules, training_type, goal, target, error,
                   target_duration, time_flexibility, sport_additions,
                   missing_categories, fallback_substitutions, total_duration,
                   optional_budget, optional_used, step, sessions, result,
                   balance_input,
                   run, prior, probe>>

\* apply_duration_management, total above the maximum:
\* trim_workout_to_target_duration
TrimWorkout ==
    /\ pc = "balance"
    /\ SumDuration(selected_scripts) > max_allowed
    /\ selected_scripts' =
           trim_workout_to_target_duration(selected_scripts, max_allowed)
    /\ pc' = "finish"
    /\ UNCHANGED <<present, template_rules, training_type, goal, target, error,
                   target_duration, time_flexibility, used_script_ids,
                   sport_additions, missing_categories, fallback_substitutions,
                   total_duration, optional_budget, optional_used, step,
                   times_selected, last_selected, sessions, result,
                   selection_log, balance_input,
                   run, prior, probe>>

\* apply_duration_management, total within the range
KeepDuration ==
    /\ pc = "balance"
    /\ SumDuration(selected_scripts) >= min_allowed
    /\ SumDuration(selected_scripts) <= max_allowed
    /\ pc' = "finish"
    /\ UNCHANGED <<present, template_rules, training_type, goal, target, error,
                   target_duration, time_flexibility, used_script_ids,
                   sport_additions, missing_categories, fallback_substitutions,
                   selected_scripts, total_duration, optional_budget,
                   optional_used, step, times_selected, last_selected,
                   sessions, result, selection_log, balance_input,
                   run, prior, probe>>

\* lines 220-221: nothing was selected
RaiseNoScripts ==
    /\ pc = "finish"
    /\ selected_scripts = << >>
    /\ pc' = "failed"
    /\ error' = "no_scripts"
    /\ UNCHANGED <<present, template_rules, training_type, goal, target,
                   target_duration, time_flexibility, used_script_ids,
                   sport_additions, missing_categories, fallback_substitutions,
                   selected_scripts, total_duration, optional_budget,
                   optional_used, step, times_selected, last_selected,
                   sessions, result, selection_log, balance_input,
                   run, prior, probe>>

\* lines 242-250: the session is recorded and the result compiled
CreateSession ==
    /\ pc = "finish"
    /\ selected_scripts # << >>
    /\ LET workout_session ==
               create_workout_session_record(
                   selected_scripts, training_type, goal, target_duration,
                   time_flexibility, sport_additions)
       IN  /\ sessions' = Append(sessions, workout_session)
           /\ result' = <<compile_generation_results(
                             workout_session, selected_scripts, training_type,
                             target_duration, sport_additions,
                             missing_categories, fallback_substitutions)>>
    /\ pc' = "done"
    /\ UNCHANGED <<present, template_rules, training_type, goal, target, error,
                   target_duration, time_flexibility, used_script_ids,
                   sport_additions, missing_categories, fallback_substitutions,
                   selected_scripts, total_duration, optional_budget,
                   optional_used, step, times_selected, last_selected,
                   selection_log, balance_input,
                   run, prior, probe>>

Next ==
    \/ RejectDuration
    \/ RejectNoTemplate
    \/ PlanBudget
    \/ WalkInactiveStep
    \/ WalkNoActiveCategory
    \/ WalkRequiredStep
    \/ WalkOptionalStep
    \/ ApplySportIntelligence
    \/ AddFiller
    \/ TrimWorkout
    \/ KeepDuration
    \/ RaiseNoScripts
    \/ CreateSession

Spec == Init /\ [][Next]_vars

\* ------------------------------------------------------------------------
\* Properties
\* ------------------------------------------------------------------------
LogIds == [i \in 1..Len(selection_log) |-> selection_log[i].id]
Vias == {selection_log[i].via : i \in 1..Len(selection_log)}
Occurrences(s, x) == Cardinality({i \in 1..Len(s) : s[i] = x})
NoDuplicates(s) == \A i, j \in 1..Len(s) : i # j => s[i] # s[j]
SessionBlocks(session) ==
    [i \in 1..Len(session.session_scripts) |->
        session.session_scripts[i].workout_script]

\* C1: within one run no content block appears twice in the ordered block
\* list, at any point of the walk, after post-processing, filling or
\* trimming, nor in the block list of the recorded session.
C1_NoBlockTwice ==
    /\ NoDuplicates(selected_scripts)
    /\ NoDuplicates(LogIds)
    /\ \A k \in 1..Len(sessions) : NoDuplicates(SessionBlocks(sessions[k]))

C1_Witness ==
    /\ pc = "done"
    /\ {"template", "special", "fallback"} \subseteq Vias
    /\ Len(sessions[1].session_scripts) >= 3

NoActiveStep == \A k \in 1..Len(template_rules) : ~template_rules[k].is_active

\* the unused blocks the filler search accepts, whatever their duration
EligibleFillers(used) ==
    {id \in present \ used :
        /\ Script(id).type = training_type
        /\ Script(id).is_active
        /\ Script(id).script_category \in regular_categories[training_type]
        /\ Script(id).goal \in {goal, "allround"}}

SetDuration(ids) == SumDuration(CHOOSE s \in OrderedByDuration(ids) : TRUE)
UsedBeforeBalance ==
    {selection_log[i].id : i \in {j \in 1..Len(selection_log) :
                                     selection_log[j].via # "filler"}}

\* C2 as stated: a successful run (over a template with an active step)
\* whose walk ended below min_allowed, with unused eligible filler blocks
\* whose addition would bring the total into [min_allowed, max_allowed],
\* ends with a realized duration in that range.
C2_Original ==
    (/\ pc = "done"
     /\ ~NoActiveStep
     /\ SumDuration(balance_input) < min_allowed
     /\ \E S \in SUBSET EligibleFillers(UsedBeforeBalance) :
           /\ S # {}
           /\ SumDuration(balance_input) + SetDuration(S) >= min_allowed
           /\ SumDuration(balance_input) + SetDuration(S) <= max_allowed)
    => /\ result[1].total_duration >= min_allowed
       /\ result[1].total_duration <= max_allowed

\* C2, amended: a successful run ends at or below max_allowed unless its
\* essential blocks alone exceed max_allowed; a run whose walk ended within
\* [min_allowed, max_allowed] keeps that total; and when the walk ended below
\* min_allowed the fillers never raise the total above min_allowed and the
\* run ends with a shortfall of at most 1.0 minute or with no unused
\* eligible filler block of duration <= the remaining shortfall.
C2_DurationBalanced ==
    pc = "done" =>
        LET realized == result[1].total_duration
            walked == SumDuration(balance_input)
        IN  /\ realized = SumDuration(selected_scripts)
            /\ \/ realized <= max_allowed
               \/ SumDuration(SelectSeq(selected_scripts, IsEssential)) > max_allowed
            /\ (walked >= min_allowed /\ walked <= max_allowed) => realized = walked
            /\ walked < min_allowed =>
                  /\ realized >= walked
                  /\ realized <= min_allowed
                  /\ \/ min_allowed - realized <= FillerCloseEnough
                     \/ \A id \in EligibleFillers(used_script_ids) :
                            Duration(id) > min_allowed - realized

C2_Witness ==
    /\ pc = "done"
    /\ "filler" \in Vias
    /\ result[1].total_duration < min_allowed
    /\ EligibleFillers(used_script_ids) # {}

\* C3: during one run every selected block (template walk, special
\* insertion, required-step fallback, filler) has its usage counter
\* incremented by exactly 1 and stamped, and no other counter changes.
C3_UsageCountedOnce ==
    /\ used_script_ids = Range(LogIds)
    /\ \A id \in ScriptIds :
          /\ times_selected[id] = Occurrences(LogIds, id)
          /\ times_selected[id] = IF id \in used_script_ids THEN 1 ELSE 0
          /\ id \notin used_script_ids =>
                 last_selected[id] = ScriptPool[id].last_selected
    /\ Range(selected_scripts) \subseteq used_script_ids

C3_Witness ==
    /\ pc = "done"
    /\ {"template", "special", "fallback"} \subseteq Vias
    /\ \E id \in present : times_selected[id] = 0
    /\ \A id \in used_script_ids : times_selected[id] = 1

NothingSelected ==
    /\ selected_scripts = << >>
    /\ used_script_ids = {}
    /\ selection_log = << >>
    /\ \A id \in ScriptIds : times_selected[id] = 0
    /\ sessions = << >>
    /\ result = << >>

\* C4: a call with a target below 15 or above 120 minutes is rejected with
\* the duration error before anything is selected, counted or recorded;
\* targets of exactly 15 and exactly 120 minutes are not rejected.
C4_DurationValidated ==
    /\ (target < 150 \/ target > 1200) =>
          /\ pc \in {"start", "failed"}
          /\ pc = "failed" => error = "duration"
          /\ NothingSelected
    /\ (target >= 150 /\ target <= 1200) => error # "duration"

C4_Witness ==
    /\ pc = "failed"
    /\ error = "duration"
    /\ target = 149
    /\ present # {}

\* C5 as stated: a call for a discipline without active template steps (no
\* steps, or only inactive ones) fails with the 'no template' error before
\* anything is selected, counted or recorded.
C5_Original ==
    (NoActiveStep /\ ~(target < 150 \/ target > 1200)) =>
        /\ pc \in {"start", "failed"}
        /\ pc = "failed" => error = "no_template"
        /\ NothingSelected

IsFailedRequiredStep(k) ==
    /\ template_rules[k].is_required
    /\ template_rules[k].is_active
    /\ ~\E i \in 1..Len(selection_log) :
           selection_log[i].via = "template" /\ selection_log[i].step = k
IsFallbackEntry(e) == e.via = "fallback"

\* the required steps of the template that got no block from their OR-set
FailedRequiredSteps ==
    SelectSeq([k \in 1..Len(template_rules) |-> k], IsFailedRequiredStep)

\* C6: a required step that cannot be filled from its OR-set does not make
\* the call fail: the call raises 'no scripts' only with an empty final
\* list; a successful result lists every such step, in order, under
\* missing_categories and has one substitutions_made entry, naming the
\* missing category and the substituting block, for every step whose
\* fallback search found a block; without such a step it has no warnings.
C6_MissingStepsReported ==
    /\ (pc = "failed" /\ error = "no_scripts") => selected_scripts = << >>
    /\ pc = "failed" => error \in {"duration", "no_template", "no_scripts"}
    /\ pc = "done" =>
          LET failed == FailedRequiredSteps
              fallbacks == SelectSeq(selection_log, IsFallbackEntry)
              missing == [i \in 1..Len(failed) |->
                             [category |-> template_rules[failed[i]].primary_category,
                              required |-> TRUE]]
              subs == [i \in 1..Len(fallbacks) |->
                          [missing |-> template_rules[fallbacks[i].step].primary_category,
                           used |-> Script(fallbacks[i].id).script_category,
                           script |-> fallbacks[i].id]]
          IN  /\ \A i \in 1..Len(fallbacks) :
                    \E j \in 1..Len(failed) : failed[j] = fallbacks[i].step
              /\ result[1].content_warnings =
                     IF failed = << >> THEN << >>
                     ELSE <<[missing_categories |-> missing,
                             substitutions_made |-> subs]>>

C6_Witness ==
    /\ pc = "done"
    /\ Len(result[1].content_warnings) = 1
    /\ Len(result[1].content_warnings[1].missing_categories) = 2
    /\ Len(result[1].content_warnings[1].substitutions_made) = 1

\* the blocks of category c a step may choose under the ceiling
EligibleInCategory(c, ceiling) ==
    {id \in present \ used_script_ids :
        /\ Script(id).type = training_type
        /\ Script(id).script_category = c
        /\ Script(id).is_active
        /\ Categories[c].is_active
        /\ Duration(id) <= ceiling}

C7_StepChoice ==
    LET rule == template_rules[step]
        e == selection_log'[Len(selection_log) + 1]
        ceiling == IF rule.is_required
                   THEN max_allowed - total_duration
                   ELSE Min2(optional_budget - optional_used,
                             max_allowed - total_duration)
        cats == <<rule.primary_category>> \o rule.alternative_categories
    IN  (/\ pc = "walk"
         /\ Len(selection_log') > Len(selection_log)
         /\ e.via = "template")
        => \E k \in 1..Len(cats) :
              /\ e.id \in EligibleInCategory(cats[k], ceiling)
              /\ \A j \in 1..(k - 1) : EligibleInCategory(cats[j], ceiling) = {}

\* C7: the block chosen for a template step comes from the primary category
\* whenever the primary category has an eligible candidate, and otherwise
\* from the first alternative category, in listed order, that has one.
C7_PrimaryPreferred == [][C7_StepChoice]_vars

C7_Witness ==
    \E i \in 1..Len(selection_log) :
        /\ selection_log[i].via = "template"
        /\ Len(template_rules[selection_log[i].step].alternative_categories) >= 2
        /\ Script(selection_log[i].id).script_category =
               template_rules[selection_log[i].step].alternative_categories[2]

\* the scenario of C8: template 2, target 30, one 6-minute warmup block, one
\* 12-minute core block, one 4-minute surprise block, one 6-minute cooldown
C8_Scenario ==
    /\ template_rules = Templates[2]
    /\ target = 300
    /\ Cardinality(present) = 4
    /\ \E w, c, b, d \in present :
          /\ Script(w).script_category = CatWarmup /\ Duration(w) = 60
          /\ Script(c).script_category = CatCore /\ Duration(c) = 120
          /\ Script(b).script_category = CatSurprise /\ Duration(b) = 40
          /\ Script(d).script_category = CatCooldown /\ Duration(d) = 60
          /\ \A id \in {w, c, b, d} : Script(id).is_active

\* C8: in that scenario the run does not fail and ends with the four blocks
\* in the order warmup, core, surprise, cooldown, a realized duration of 28
\* minutes, no filler and no trim, and the time status within range.
C8_ScenarioResult ==
    C8_Scenario =>
        /\ pc # "failed"
        /\ pc = "done" =>
              /\ Len(selected_scripts) = 4
              /\ Script(selected_scripts[1]).script_category = CatWarmup
              /\ Script(selected_scripts[2]).script_category = CatCore
              /\ Script(selected_scripts[3]).script_category = CatSurprise
              /\ Script(selected_scripts[4]).script_category = CatCooldown
              /\ SessionBlocks(sessions[1]) = selected_scripts
              /\ result[1].total_duration = 280
              /\ result[1].time_status = "Perfect"
              /\ "filler" \notin Vias
              /\ selected_scripts = balance_input

C8_Witness == C8_Scenario /\ pc = "done"

Trimmed == pc \in {"finish", "done"} /\ SumDuration(balance_input) > max_allowed
KeptOptional == SelectSeq(selected_scripts, IsOptional)

\* C9 as stated: after a trim the optional blocks kept are as many as any
\* subset of the optional blocks that fits with the essential blocks under
\* max_allowed.
C9_Original ==
    Trimmed =>
        LET essential == SelectSeq(balance_input, IsEssential)
            optional == Range(SelectSeq(balance_input, IsOptional))
        IN  \A S \in SUBSET optional :
                SumDuration(essential) + SetDuration(S) <= max_allowed
                => Cardinality(S) <= Len(KeptOptional)

\* C9, amended: after a trim every essential block is kept and the optional
\* blocks are gone through in their listed order, each being kept exactly
\* when it fits under max_allowed together with the essential blocks and the
\* optional blocks kept before it; the number kept need not be the largest
\* possible.
C9_GreedyTrim ==
    Trimmed =>
        LET essential == SelectSeq(balance_input, IsEssential)
            optional == SelectSeq(balance_input, IsOptional)
            KeptBefore(i) == {j \in 1..(i - 1) :
                                 optional[j] \in Range(selected_scripts)}
            Before(i) == SetDuration({optional[j] : j \in KeptBefore(i)})
        IN  /\ Range(essential) \subseteq Range(selected_scripts)
            /\ Range(selected_scripts) \subseteq Range(balance_input)
            /\ \A i \in 1..Len(optional) :
                   optional[i] \in Range(selected_scripts)
                   <=> SumDuration(essential) + Before(i) + Duration(optional[i])
                           <= max_allowed

C9_Witness ==
    /\ Trimmed
    /\ Len(KeptOptional) >= 1
    /\ Len(KeptOptional) < Len(SelectSeq(balance_input, IsOptional))
    /\ \E id \in Range(balance_input) : IsEssential(id)

\* the block is of a special category: kb_surprise, cal_max_challenge or a
\* vinyasa transition
C10_Special(id) == IsSportAddition(id)

\* the block is of a structural category: the warmup class or the cooldown
\* class, as the generator classifies blocks for the canonical order
C10_Structural(id) == is_warmup_script(id) \/ is_cooldown_script(id)

C10_Ordinary(id) == ~C10_Special(id) /\ ~C10_Structural(id)

\* C10 as stated: in the compiled text the blocks that are neither special
\* nor structural (warmup/cooldown class) carry the round numbers 1, 2, 3,
\* ... in their order, each one higher than the previous numbered block, and
\* no special or structural block carries a round number or advances the
\* count.
C10_Original ==
    \A k \in 1..Len(sessions) :
        LET compiled == sessions[k].compiled_script
        IN  \A i \in 1..Len(compiled) :
                IF C10_Ordinary(compiled[i].script)
                THEN /\ compiled[i].header = "round"
                     /\ compiled[i].round =
                            1 + Cardinality({j \in 1..(i - 1) :
                                   C10_Ordinary(compiled[j].script)})
                ELSE compiled[i].header # "round" /\ compiled[i].round = 0

\* the allowed deviation of the claim, in tenths of a minute
Deviation(tgt) == IF tgt <= 300 THEN 30 ELSE IF tgt <= 450 THEN 40 ELSE 50

\* the deviation and the bounds in force once the call is accepted, as the
\* balancer and the time status use them
C12_Bounds ==
    LET lo == target - Deviation(target)
        hi == target + Deviation(target)
        walked == SumDuration(balance_input)
    IN  /\ pc \in {"walk", "balance", "finish", "done"} =>
              /\ target_duration = target
              /\ time_flexibility = Deviation(target)
              /\ min_allowed = lo
              /\ max_allowed = hi
        /\ pc \in {"finish", "done"} =>
              /\ "filler" \in Vias => walked < lo
              /\ walked <= hi => Range(balance_input) \subseteq Range(selected_scripts)
              /\ (walked >= lo /\ walked <= hi) => selected_scripts = balance_input
              /\ walked > hi =>
                     selected_scripts =
                         trim_workout_to_target_duration(balance_input, hi)
        /\ pc = "done" =>
              /\ sessions[Len(sessions)].target_duration = target
              /\ sessions[Len(sessions)].time_flexibility = Deviation(target)
              /\ result[1].time_status =
                     IF result[1].total_duration < lo THEN "Short"
                     ELSE IF result[1].total_duration > hi THEN "Long"
                     ELSE "Perfect"

\* the ceiling of a block the walker selects for a template step
C12_WalkCeiling ==
    LET rule == template_rules[step]
        e == selection_log'[Len(selection_log) + 1]
        hi == target + Deviation(target)
    IN  (/\ pc = "walk"
         /\ Len(selection_log') > Len(selection_log)
         /\ e.via \in {"template", "fallback"})
        => /\ Duration(e.id) <= hi - total_duration
           /\ (e.via = "template" /\ ~rule.is_required) =>
                  Duration(e.id) <= optional_budget - optional_used

\* C12: the allowed deviation is 3 minutes for a target of at most 30, 4 for
\* a target above 30 and at most 45, and 5 otherwise, and target - deviation
\* and target + deviation are the bounds the walker, the balancer and the
\* time status use.
C12_DeviationBounds == []C12_Bounds /\ [][C12_WalkCeiling]_vars

C12_Witness ==
    /\ pc = "done"
    /\ target = 301
    /\ result[1].total_duration = 270
    /\ result[1].time_status = "Perfect"

\* the blocks of this run appended by the special-insertion mechanism
InsertedSpecials ==
    {selection_log[i].id : i \in {j \in 1..Len(selection_log) :
                                     selection_log[j].via = "special"}}

\* C16 as stated: in the result and in the recorded session a block is
\* flagged as a special insertion exactly when the special-insertion
\* mechanism of a step appended it.
C16_Original ==
    pc = "done" =>
        LET rows == sessions[Len(sessions)].session_scripts
            listed == result[1].scripts
        IN  /\ \A i \in 1..Len(rows) :
                  rows[i].is_sport_addition
                  <=> rows[i].workout_script \in InsertedSpecials
            /\ \A i \in 1..Len(listed) :
                  listed[i].is_sport_addition
                  <=> listed[i].workout_script \in InsertedSpecials

\* number of entries of the sequence s that satisfy Test
CountIn(s, Test(_)) == Cardinality({i \in 1..Len(s) : Test(s[i])})

\* the number of challenge blocks a summary reports: 0 without such an entry
ReportedChallenges(summary) ==
    IF "max_challenge_added" \in DOMAIN summary
    THEN summary.max_challenge_added
    ELSE 0

\* C17 as stated: the summary of a result reports for every kind of special
\* insertion (surprise round, MAX challenge, vinyasa transition) the number
\* of blocks of that kind inserted during the run, which is the number of
\* blocks of that kind in the block list of the session.
C17_Original ==
    pc = "done" =>
        LET summary == result[1].sport_specific_additions
            blocks == SessionBlocks(sessions[Len(sessions)])
            inserted == SelectSeq(LogIds, LAMBDA id : id \in InsertedSpecials)
        IN  /\ summary.surprise_rounds_added = CountIn(inserted, is_surprise_round)
            /\ summary.surprise_rounds_added = CountIn(blocks, is_surprise_round)
            /\ ReportedChallenges(summary) = CountIn(inserted, is_max_challenge)
            /\ ReportedChallenges(summary) = CountIn(blocks, is_max_challenge)
            /\ summary.vinyasa_transitions_added =
                   CountIn(inserted, is_vinyasa_transition)
            /\ summary.vinyasa_transitions_added =
                   CountIn(blocks, is_vinyasa_transition)

\* a category reserved for the special insertions of its discipline: a
\* system category, a category the insertion lookups resolve, or a category
\* whose name get_special_category_names lists
SpecialCategoryOfDiscipline(c) ==
    LET tt == Categories[c].training_type
    IN  \/ CatIsSurpriseRound(c) \/ CatIsMaxChallenge(c) \/ CatIsVinyasaTransition(c)
        \/ c \in {SurpriseCategory[tt], MaxChallengeCategory[tt],
                  VinyasaSittingCategory[tt], VinyasaStandingCategory[tt]}
        \/ /\ Categories[c].is_active
           /\ ContainsAny(LowerName[c], special_patterns(tt))

\* C18: a block chosen by the required-step fallback or added as filler is
\* never of a special category; the blocks of special categories of a run
\* were appended by the special insertion of a step or chosen for a template
\* step that lists their category.
C18_SpecialsReserved ==
    \A i \in 1..Len(selection_log) :
        LET e == selection_log[i]
            c == Script(e.id).script_category
        IN  /\ e.via \in {"fallback", "filler"} =>
                  /\ ~SpecialCategoryOfDiscipline(c)
                  /\ ~IsSportAddition(e.id)
            /\ SpecialCategoryOfDiscipline(c) =>
                  \/ e.via = "special"
                  \/ /\ e.via = "template"
                     /\ c \in Range(get_all_possible_categories(template_rules[e.step]))

C18_Witness ==
    /\ pc = "done"
    /\ {"fallback", "filler"} \subseteq Vias
    /\ \E id \in present \ used_script_ids :
          /\ IsSportAddition(id)
          /\ Script(id).is_active
          /\ Script(id).goal \in {goal, "allround"}
          /\ Duration(id) <= min_allowed - SumDuration(balance_input)

\* C19 as stated: during the walk the running total is the sum of the
\* durations of the blocks selected so far.
C19_Original ==
    pc = "walk" => total_duration = SumDuration(selected_scripts)

C20_SpecialChoice ==
    LET sel == selection_log'[Len(selection_log) + 1]
        sp == selection_log'[Len(selection_log) + 2]
        c == Script(sp.id).script_category
        remaining == max_allowed - (total_duration + Duration(sel.id))
    IN  (/\ pc = "walk"
         /\ Len(selection_log') = Len(selection_log) + 2
         /\ sp.via = "special")
        => /\ Duration(sp.id) <= remaining
           /\ Script(sp.id).goal \notin {goal, "allround"} =>
                  ~\E id \in present \ (used_script_ids \cup {sel.id}) :
                       /\ Script(id).script_category = c
                       /\ Script(id).type = training_type
                       /\ Script(id).is_active
                       /\ Script(id).goal \in {goal, "allround"}

\* C20 as stated: a special-insertion block has a duration of at most the
\* remaining time (max_allowed minus the running total) at its insertion,
\* and its goal is the requested goal or all-round unless its category has
\* no unused block of such a goal.
C20_Original == [][C20_SpecialChoice]_vars

\* ------------------------------------------------------------------------
\* Functions applied on their own
\* ------------------------------------------------------------------------
\* no call of generate_workout_with_custom_duration is in progress
NoCall ==
    /\ training_type = "kickboxing"
    /\ goal = "allround"
    /\ target = 300
    /\ template_rules = << >>
    /\ pc = "idle"
    /\ error = "none"
    /\ target_duration = 600
    /\ time_flexibility = FlexLong
    /\ used_script_ids = {}
    /\ sport_additions = NoAdditions
    /\ missing_categories = << >>
    /\ fallback_substitutions = << >>
    /\ selected_scripts = << >>
    /\ total_duration = 0
    /\ optional_budget = 0
    /\ optional_used = 0
    /\ step = 1
    /\ sessions = << >>
    /\ result = << >>
    /\ selection_log = << >>
    /\ balance_input = << >>
    /\ run = 1
    /\ prior = << >>

\* the variables of a call, left alone by a function applied on its own
call_vars ==
    <<training_type, goal, target, template_rules, pc, error, target_duration,
      time_flexibility, used_script_ids, sport_additions, missing_categories,
      fallback_substitutions, selected_scripts, total_duration,
      optional_budget, optional_used, step, sessions, result, selection_log,
      balance_input, run, prior>>

\* ------------------------------------------------------------------------
\* WorkoutScript.get_freshness_score applied to one block
\* ------------------------------------------------------------------------
\* the latest day of last_selected tried; days after Today are in the future
MaxDay == 50
NoScore == 0
FreshnessBlocks == {1, 13}

InitFreshness ==
    /\ NoCall
    /\ \E id \in FreshnessBlocks :
          /\ present = {id}
          /\ \E ls \in {NeverSelected} \cup (0..MaxDay) :
                last_selected = [i \in ScriptIds |->
                                    IF i = id THEN ls
                                    ELSE ScriptPool[i].last_selected]
          /\ probe = [fn |-> "get_freshness_score", script |-> id,
                      score |-> NoScore]
    /\ times_selected = [id \in ScriptIds |-> 0]

\* script.get_freshness_score(): returns the score, writes nothing
ComputeFreshness ==
    /\ probe.fn = "get_freshness_score"
    /\ probe.score = NoScore
    /\ probe' = [probe EXCEPT
                    !.score = get_freshness_score(last_selected[probe.script])]
    /\ UNCHANGED <<present, times_selected, last_selected>>
    /\ UNCHANGED call_vars

NextFreshness == ComputeFreshness

SpecFreshness == InitFreshness /\ [][NextFreshness]_vars

C13_Scored == probe.fn = "get_freshness_score" /\ probe.score # NoScore

C13_Table ==
    C13_Scored =>
        LET ls == last_selected[probe.script]
            days == Today - ls
        IN  /\ probe.score \in {10, 8, 6, 3}
            /\ ls = NeverSelected => probe.score = 10
            /\ (ls # NeverSelected /\ days >= 14) => probe.score = 10
            /\ (ls # NeverSelected /\ days >= 7 /\ days < 14) => probe.score = 8
            /\ (ls # NeverSelected /\ days >= 3 /\ days < 7) => probe.score = 6
            /\ (ls # NeverSelected /\ days < 3) => probe.score = 3

C13_NoWrite ==
    probe.fn = "get_freshness_score" =>
        UNCHANGED <<present, times_selected, last_selected, sessions>>

\* C13: the freshness score of a block is 1.0 if it was never selected,
\* otherwise 1.0 from 14 whole days since its last selection, 0.8 from 7,
\* 0.6 from 3 and 0.3 below; it is always one of these four values, and
\* computing it writes no field of any block.
C13_Freshness == []C13_Table /\ [][C13_NoWrite]_vars

\* a block last selected exactly 7 days ago was scored 0.8
C13_Witness ==
    /\ C13_Scored
    /\ last_selected[probe.script] = Today - 7
    /\ probe.score = 8

\* ------------------------------------------------------------------------
\* apply_sport_specific_intelligence applied to a block list, twice
\* ------------------------------------------------------------------------
\* the longest block list handed to the pass
MaxListLen == 4
MaxPasses == 2

OrderingPool(tt) == {id \in ScriptIds : Script(id).type = tt}

\* the lists of distinct blocks of a discipline
BlockLists(tt) ==
    UNION {{s \in [1..n -> OrderingPool(tt)] :
                \A i, j \in 1..n : i # j => s[i] # s[j]} : n \in 0..MaxListLen}

InitOrdering ==
    /\ training_type \in RequestTypes
    /\ selected_scripts \in BlockLists(training_type)
    /\ present = Range(selected_scripts)
    /\ probe = [fn |-> "apply_sport_specific_intelligence", passes |-> 0,
                before |-> selected_scripts]
    /\ goal = "allround"
    /\ target = 300
    /\ template_rules = << >>
    /\ pc = "idle"
    /\ error = "none"
    /\ target_duration = 600
    /\ time_flexibility = FlexLong
    /\ used_script_ids = {}
    /\ sport_additions = NoAdditions
    /\ missing_categories = << >>
    /\ fallback_substitutions = << >>
    /\ total_duration = 0
    /\ optional_budget = 0
    /\ optional_used = 0
    /\ step = 1
    /\ times_selected = [id \in ScriptIds |-> 0]
    /\ last_selected = [id \in ScriptIds |-> ScriptPool[id].last_selected]
    /\ sessions = << >>
    /\ result = << >>
    /\ selection_log = << >>
    /\ balance_input = << >>
    /\ run = 1
    /\ prior = << >>

\* enhanced_scripts = self.apply_sport_specific_intelligence(scripts, ...)
ApplyPass ==
    /\ probe.fn = "apply_sport_specific_intelligence"
    /\ probe.passes < MaxPasses
    /\ LET enhanced_scripts ==
               apply_sport_specific_intelligence(selected_scripts, training_type)
       IN  /\ selected_scripts' = enhanced_scripts
           /\ sport_additions' =
                  IF training_type = "calisthenics"
                     /\ enhanced_scripts # selected_scripts
                  THEN [sport_additions EXCEPT !.difficulty_reordered = @ + 1]
                  ELSE sport_additions
    /\ probe' = [probe EXCEPT !.passes = @ + 1, !.before = selected_scripts]
    /\ UNCHANGED <<present, template_rules, training_type, goal, target, pc,
                   error, target_duration, time_flexibility, used_script_ids,
                   missing_categories, fallback_substitutions, total_duration,
                   optional_budget, optional_used, step, times_selected,
                   last_selected, sessions, result, selection_log,
                   balance_input, run, prior>>

NextOrdering == ApplyPass

SpecOrdering == InitOrdering /\ [][NextOrdering]_vars

\* C14 as stated: the pass applied to a list it has produced returns the
\* blocks in the same order, for every discipline and any number of
\* challenge blocks in the list.
C14_Original ==
    (probe.fn = "apply_sport_specific_intelligence" /\ probe.passes >= 2)
        => selected_scripts = probe.before

\* ------------------------------------------------------------------------
\* Several calls on one repository
\* ------------------------------------------------------------------------
\* the number of calls made one after the other
MaxRuns == 2

CallOver == pc \in {"done", "failed"}

\* what a call that is over leaves behind, as far as later calls may see it
Left(same_object) ==
    [used_script_ids |-> used_script_ids,
     missing_categories |-> missing_categories,
     sport_additions |-> sport_additions,
     same_object |-> same_object]

\* the local variables and the outcome of a call that has not begun
FreshCall ==
    /\ pc' = "start"
    /\ error' = "none"
    /\ selected_scripts' = << >>
    /\ total_duration' = 0
    /\ optional_budget' = 0
    /\ optional_used' = 0
    /\ step' = 1
    /\ result' = << >>
    /\ selection_log' = << >>
    /\ balance_input' = << >>
    /\ run' = run + 1

\* views.py: generator = IntelligentWorkoutGenerator();
\* generator.generate_workout_with_custom_duration(...), the request repeated
NewGeneratorCall ==
    /\ CallOver
    /\ run < MaxRuns
    /\ FreshCall
    /\ target_duration' = 600
    /\ time_flexibility' = FlexLong
    /\ used_script_ids' = {}
    /\ sport_additions' = NoAdditions
    /\ missing_categories' = << >>
    /\ fallback_substitutions' = << >>
    /\ prior' = Append(prior, Left(FALSE))
    /\ UNCHANGED <<present, template_rules, training_type, goal, target,
                   times_selected, last_selected, sessions, probe>>

\* generate_workout_with_custom_duration called again on the same object:
\* no attribute of the object is assigned before the call begins
SameGeneratorCall ==
    /\ CallOver
    /\ run < MaxRuns
    /\ FreshCall
    /\ prior' = Append(prior, Left(TRUE))
    /\ UNCHANGED <<present, template_rules, training_type, goal, target,
                   target_duration, time_flexibility, used_script_ids,
                   sport_additions, missing_categories, fallback_substitutions,
                   times_selected, last_selected, sessions, probe>>

InitReuse == Init

NextReuse ==
    \/ Next
    \/ NewGeneratorCall
    \/ SameGeneratorCall

SpecReuse == InitReuse /\ [][NextReuse]_vars

\* C15 as stated: every run, on a new generator object or on the same one,
\* starts with an empty used-block set, so that no block selected in an
\* earlier run is excluded, and with no warning and no special-insertion
\* count of an earlier run.
C15_Original ==
    pc = "start" =>
        /\ used_script_ids = {}
        /\ missing_categories = << >>
        /\ fallback_substitutions = << >>
        /\ sport_additions = NoAdditions

\* ------------------------------------------------------------------------
\* generator/quote_processor.py: QuoteProcessor.process_script_content
\* ------------------------------------------------------------------------
\* the largest number of fragments a block body is put together from
MaxFragments == 3
NeverUsed == -1

T_Onthoud == <<"O","n","t","h","o","u","d">>
F_plain == <<"[">> \o T_Onthoud \o <<",",".",".","]">>
F_spaced == <<"["," ">> \o T_Onthoud \o <<" ",","," ",".",".","."," ","]">>
F_text == <<"H","u","p",".","\n">>
F_open == <<"[">> \o T_Onthoud
F_close == <<",",".",".","]">>
F_nodots == <<"[">> \o T_Onthoud \o <<","," ","j","a","]">>

Fragments == {F_plain, F_spaced, F_text, F_open, F_close, F_nodots}

RECURSIVE Concat(_)
Concat(parts) ==
    IF parts = << >> THEN << >> ELSE Head(parts) \o Concat(Tail(parts))

\* the block bodies tried
Contents ==
    {Concat(parts) : parts \in UNION {[1..n -> Fragments] : n \in 0..MaxFragments}}

\* MotivationalQuote rows
QuotePool == <<
    [training_type |-> "kickboxing", is_active |-> TRUE,
     target_category |-> NoCategory, is_exercise_specific |-> FALSE,
     quote_text |-> <<"g","a">>, times_used |-> 0, last_used |-> NeverUsed],
    [training_type |-> "kickboxing", is_active |-> TRUE,
     target_category |-> NoCategory, is_exercise_specific |-> FALSE,
     quote_text |-> <<".",".">>, times_used |-> 1, last_used |-> 12],
    [training_type |-> "kickboxing", is_active |-> TRUE,
     target_category |-> CatCore, is_exercise_specific |-> TRUE,
     quote_text |-> <<"k","e","r","n">>, times_used |-> 2, last_used |-> 20],
    [training_type |-> "kickboxing", is_active |-> FALSE,
     target_category |-> NoCategory, is_exercise_specific |-> FALSE,
     quote_text |-> <<"o","u","d">>, times_used |-> 0, last_used |-> NeverUsed],
    [training_type |-> "calisthenics", is_active |-> TRUE,
     target_category |-> NoCategory, is_exercise_specific |-> FALSE,
     quote_text |-> <<"u","p">>, times_used |-> 0, last_used |-> NeverUsed],
    [training_type |-> "kickboxing", is_active |-> TRUE,
     target_category |-> CatCore, is_exercise_specific |-> TRUE,
     quote_text |-> <<"r","u","g">>, times_used |-> 2, last_used |-> NeverUsed]
>>

QuoteIds == 1..Len(QuotePool)

\* the blocks whose body is processed: one of kb_combos, one of kb_core
QuotedBlocks == {2, 5}

\* the characters up to U+00FF that \s of a str pattern matches: tab, line
\* feed, vertical tab, form feed, carriage return, U+001C to U+001F, space,
\* U+0085 and the no-break space U+00A0
WhiteSpace ==
    {"\t", "\n", "", "\f", "\r", "", "", "", "", " ", "", " "}

\* \s of the pattern
IsSpace(c) == c \in WhiteSpace

RECURSIVE SkipSpace(_, _)
\* \s*: the index after the white space that starts at i
SkipSpace(s, i) ==
    IF i <= Len(s) /\ IsSpace(s[i]) THEN SkipSpace(s, i + 1) ELSE i

RECURSIVE SkipDots(_, _)
\* \.*: the index after the dots that start at i
SkipDots(s, i) ==
    IF i <= Len(s) /\ s[i] = "." THEN SkipDots(s, i + 1) ELSE i

LiteralAt(s, i, lit) ==
    /\ i + Len(lit) - 1 <= Len(s)
    /\ SubSeq(s, i, i + Len(lit) - 1) = lit

\* placeholder_pattern matched at index i: the index after the match, or 0
MatchAt(s, i) ==
    IF ~LiteralAt(s, i, <<"[">>) THEN 0
    ELSE LET b == SkipSpace(s, i + 1)
         IN  IF ~LiteralAt(s, b, T_Onthoud) THEN 0
             ELSE LET d == SkipSpace(s, b + Len(T_Onthoud))
                  IN  IF ~LiteralAt(s, d, <<",">>) THEN 0
                      ELSE LET f == SkipSpace(s, d + 1)
                               g == SkipDots(s, f)
                               h == SkipSpace(s, g)
                           IN  IF g > f /\ LiteralAt(s, h, <<"]">>)
                               THEN h + 1
                               ELSE 0

RECURSIVE FindAllFrom(_, _)
\* re.findall(placeholder_pattern, content), scanning from index i
FindAllFrom(s, i) ==
    IF i > Len(s) THEN << >>
    ELSE LET e == MatchAt(s, i)
         IN  IF e > 0 THEN <<SubSeq(s, i, e - 1)>> \o FindAllFrom(s, e)
             ELSE FindAllFrom(s, i + 1)

FindAll(s) == FindAllFrom(s, 1)

\* str.find: the first index at which p occurs in s, or 0
IndexOf(s, p) ==
    IF \E i \in 1..Len(s) : LiteralAt(s, i, p)
    THEN CHOOSE i \in 1..Len(s) :
             /\ LiteralAt(s, i, p)
             /\ \A j \in 1..(i - 1) : ~LiteralAt(s, j, p)
    ELSE 0

\* content.replace(p, r, 1)
ReplaceFirst(s, p, r) ==
    LET k == IndexOf(s, p)
    IN  IF k = 0 THEN s
        ELSE SubSeq(s, 1, k - 1) \o r \o SubSeq(s, k + Len(p), Len(s))

\* MotivationalQuote.get_formatted_quote
get_formatted_quote(q) ==
    T_Onthoud \o <<","," ","[">> \o QuotePool[q].quote_text \o <<"]">>

\* f"**{quote.get_formatted_quote()}**"
formatted_quote(q) == <<"*","*">> \o get_formatted_quote(q) \o <<"*","*">>

\* order_by('times_used', 'last_used'): q1 comes strictly before q2. Where
\* the rows with a null last_used (quotes never used) go is the database's
\* choice: before the dated rows (SQLite, MySQL) when nulls_first, after
\* them (PostgreSQL, Oracle) otherwise.
QuoteBefore(q1, q2, times_used_of, last_used_of, nulls_first) ==
    \/ times_used_of[q1] < times_used_of[q2]
    \/ /\ times_used_of[q1] = times_used_of[q2]
       /\ IF last_used_of[q1] = NeverUsed \/ last_used_of[q2] = NeverUsed
          THEN IF nulls_first
               THEN last_used_of[q1] = NeverUsed /\ last_used_of[q2] # NeverUsed
               ELSE last_used_of[q1] # NeverUsed /\ last_used_of[q2] = NeverUsed
          ELSE last_used_of[q1] < last_used_of[q2]

\* _select_contextual_quote: the quotes the call may return; none: {}
select_contextual_quote(id, tt, quotes, used, times_of, last_of, nulls_first) ==
    LET available_quotes ==
            {q \in quotes \ used :
                QuotePool[q].training_type = tt /\ QuotePool[q].is_active}
        category_quotes ==
            {q \in available_quotes :
                /\ QuotePool[q].is_exercise_specific
                /\ QuotePool[q].target_category = Script(id).script_category}
        general_quotes ==
            {q \in available_quotes :
                /\ ~QuotePool[q].is_exercise_specific
                /\ QuotePool[q].target_category = NoCategory}
        Before(q2, q) ==
            QuoteBefore(q2, q, times_of, last_of, nulls_first)
    IN  IF category_quotes # {}
        THEN {q \in category_quotes :
                 ~\E q2 \in category_quotes : Before(q2, q)}
        ELSE {q \in general_quotes :
                 Cardinality({q2 \in general_quotes : Before(q2, q)})
                     < TopQuoteCount}

InitQuotes ==
    /\ NoCall
    /\ present \in {{id} : id \in QuotedBlocks}
    /\ times_selected = [id \in ScriptIds |-> 0]
    /\ last_selected = [id \in ScriptIds |-> ScriptPool[id].last_selected]
    /\ \E id \in present, body \in Contents, quotes \in SUBSET QuoteIds,
          nulls_first \in BOOLEAN :
          probe = [fn |-> "process_script_content",
                   nulls_first |-> nulls_first,
                   script |-> id,
                   body |-> body,
                   quotes |-> quotes,
                   stage |-> "find",
                   content |-> body,
                   placeholders |-> << >>,
                   used_quote_ids |-> {},
                   times_used |-> [q \in QuoteIds |-> QuotePool[q].times_used],
                   last_used |-> [q \in QuoteIds |-> QuotePool[q].last_used]]

QuoteStep == probe.fn = "process_script_content"

\* lines 31-38: the placeholders are collected; none: the body is returned
FindPlaceholders ==
    /\ QuoteStep
    /\ probe.stage = "find"
    /\ LET placeholders == FindAll(probe.content)
       IN  probe' = [probe EXCEPT
                        !.placeholders = placeholders,
                        !.stage = IF placeholders = << >> THEN "returned"
                                  ELSE "replace"]
    /\ UNCHANGED <<present, times_selected, last_selected>>
    /\ UNCHANGED call_vars

\* lines 41-47: one iteration of the loop, a quote was found
ReplaceWithQuote ==
    /\ QuoteStep
    /\ probe.stage = "replace"
    /\ probe.placeholders # << >>
    /\ \E quote \in select_contextual_quote(probe.script, training_type,
                        probe.quotes, probe.used_quote_ids,
                        probe.times_used, probe.last_used,
                        probe.nulls_first) :
          probe' = [probe EXCEPT
                       !.content = ReplaceFirst(@, Head(probe.placeholders),
                                                formatted_quote(quote)),
                       !.times_used[quote] = @ + 1,
                       !.last_used[quote] = Today,
                       !.used_quote_ids = @ \cup {quote},
                       !.placeholders = Tail(@)]
    /\ UNCHANGED <<present, times_selected, last_selected>>
    /\ UNCHANGED call_vars

\* lines 48-50: one iteration of the loop, no quote was found
RemovePlaceholder ==
    /\ QuoteStep
    /\ probe.stage = "replace"
    /\ probe.placeholders # << >>
    /\ select_contextual_quote(probe.script, training_type, probe.quotes,
           probe.used_quote_ids, probe.times_used, probe.last_used,
           probe.nulls_first) = {}
    /\ probe' = [probe EXCEPT
                    !.content = ReplaceFirst(@, Head(probe.placeholders), << >>),
                    !.placeholders = Tail(@)]
    /\ UNCHANGED <<present, times_selected, last_selected>>
    /\ UNCHANGED call_vars

\* line 52: the loop is over
ReturnContent ==
    /\ QuoteStep
    /\ probe.stage = "replace"
    /\ probe.placeholders = << >>
    /\ probe' = [probe EXCEPT !.stage = "returned"]
    /\ UNCHANGED <<present, times_selected, last_selected>>
    /\ UNCHANGED call_vars

NextQuotes ==
    \/ FindPlaceholders
    \/ ReplaceWithQuote
    \/ RemovePlaceholder
    \/ ReturnContent

SpecQuotes == InitQuotes /\ [][NextQuotes]_vars

\* C11 as stated: the text returned for a block body holds no quote
\* placeholder, whatever the number of placeholders in the body and the
\* number of quotes available.
C11_Original ==
    (QuoteStep /\ probe.stage = "returned") => FindAll(probe.content) = << >>

\* ------------------------------------------------------------------------
\* The order of the walker's output
\* ------------------------------------------------------------------------
C21_Order ==
    pc = "walk" =>
        /\ Len(selected_scripts) = Len(selection_log)
        /\ \A i \in 1..Len(selection_log) :
              /\ selected_scripts[i] = selection_log[i].id
              /\ selection_log[i].step < step
              /\ \A j \in (i + 1)..Len(selection_log) :
                    /\ selection_log[i].step <= selection_log[j].step
                    /\ (selection_log[i].via = "template"
                        /\ selection_log[j].via = "template")
                           => selection_log[i].step < selection_log[j].step
              /\ selection_log[i].via = "special" =>
                    /\ i > 1
                    /\ selection_log[i - 1].via = "template"
                    /\ selection_log[i - 1].step = selection_log[i].step
                    /\ template_rules[selection_log[i].step].is_active
                    /\ get_special_round_category_to_add_after(
                           template_rules[selection_log[i].step], training_type)
                           = Script(selection_log[i].id).script_category

\* the directive of the step being walked resolves to no active category
C21_NoSpecialCategory ==
    LET c == get_special_round_category_to_add_after(template_rules[step],
                                                     training_type)
    IN  c = NoCategory \/ ~Categories[c].is_active

C21_SilentDirective ==
    (InWalk /\ step' = step + 1 /\ C21_NoSpecialCategory) =>
        /\ \A i \in (Len(selection_log) + 1)..Len(selection_log') :
              selection_log'[i].via # "special"
        /\ sport_additions' = sport_additions
        /\ error' = "none"
        /\ (Len(selection_log') > Len(selection_log)
            /\ selection_log'[Len(selection_log')].via = "template")
               => /\ missing_categories' = missing_categories
                  /\ fallback_substitutions' = fallback_substitutions

\* C21: in the walker's output the template-driven blocks are in ascending
\* order of their steps and every special-insertion block comes directly
\* after the block selected for the step that asked for it; a step that is
\* inactive, skipped, failed or filled by a fallback block gets no special
\* insertion, and a directive that resolves to no active category inserts
\* nothing and records no error or warning.
C21_WalkOrder == []C21_Order /\ [][C21_SilentDirective]_vars

\* a walk that is over, with a special block between two template blocks
C21_Witness ==
    /\ pc = "walk"
    /\ step > Len(template_rules)
    /\ Len(selection_log) >= 3
    /\ \E i \in 2..(Len(selection_log) - 1) :
          /\ selection_log[i].via = "special"
          /\ selection_log[i + 1].via = "template"

\* a block was selected for a step whose directive resolves to no category
C21_WitnessSilent ==
    /\ pc = "walk"
    /\ \E i \in 1..Len(selection_log) :
          /\ selection_log[i].via = "template"
          /\ template_rules[selection_log[i].step].add_max_challenge_after
          /\ training_type = "kickboxing"

\* ------------------------------------------------------------------------
\* Optional steps
\* ------------------------------------------------------------------------
\* the time an optional step may take: the smaller of what is left of the
\* optional budget and what is left of the overall time
C22_Available ==
    Min2(optional_budget - optional_used,
         max_allowed - SumDuration(selected_scripts))

C22_OptionalStep ==
    (/\ InWalk
     /\ step' = step + 1
     /\ template_rules[step].is_active
     /\ ~template_rules[step].is_required)
    => /\ C22_Available < MinOptionalTime
          => selected_scripts' = selected_scripts
       /\ Len(selected_scripts') > Len(selected_scripts)
          => Duration(selected_scripts'[Len(selected_scripts) + 1])
                 <= C22_Available

\* C22 as stated: an optional step adds no block when the smaller of the
\* remaining optional budget and the remaining overall time is below 3
\* minutes, and otherwise the block selected for it is no longer than that.
C22_Original == [][C22_OptionalStep]_vars

\* ------------------------------------------------------------------------
\* The selection within one category
\* ------------------------------------------------------------------------
\* the active, unused blocks of category cat within the ceiling
C23_Pool(cat, ceiling) ==
    {id \in present \ used_script_ids :
        /\ Script(id).type = training_type
        /\ Script(id).script_category = cat
        /\ Script(id).is_active
        /\ Duration(id) <= ceiling}

\* those of them whose goal is the requested goal or all-round
C23_Matching(cat, ceiling) ==
    {id \in C23_Pool(cat, ceiling) : Script(id).goal \in {goal, "allround"}}

\* the ceiling the step being walked hands to the selector
C23_Ceiling ==
    IF template_rules[step].is_required
    THEN max_allowed - total_duration
    ELSE Min2(optional_budget - optional_used, max_allowed - total_duration)

\* the step being walked calls the selector
C23_StepTried ==
    /\ InWalk
    /\ template_rules[step].is_active
    /\ active_categories(template_rules[step]) # << >>
    /\ template_rules[step].is_required \/ C23_Ceiling >= MinOptionalTime

\* the step that was walked appended a block selected for it
C23_Selected ==
    /\ Len(selection_log') > Len(selection_log)
    /\ selection_log'[Len(selection_log) + 1].via = "template"

C23_GoalFallback ==
    (C23_StepTried /\ step' = step + 1) =>
        LET cats == active_categories(template_rules[step])
            sel == selection_log'[Len(selection_log) + 1].id
            cat == Script(sel).script_category
        IN  IF C23_Selected
            THEN /\ sel \in C23_Pool(cat, C23_Ceiling)
                 /\ Script(sel).goal \notin {goal, "allround"}
                       => C23_Matching(cat, C23_Ceiling) = {}
                 /\ \E k \in 1..Len(cats) :
                       /\ cats[k] = cat
                       /\ \A j \in 1..(k - 1) :
                             C23_Pool(cats[j], C23_Ceiling) = {}
            ELSE \A k \in 1..Len(cats) : C23_Pool(cats[k], C23_Ceiling) = {}

\* C23: within one category the selector returns a block whose goal is
\* neither the requested goal nor all-round only when the category has no
\* active, unused block within the ceiling of the requested goal or
\* all-round, and it returns no block for a category only when the category
\* has no active, unused block within the ceiling at all.
C23_CategorySelector == [][C23_GoalFallback]_vars

\* a block of another goal was selected for a step (goal fallback)
C23_Witness ==
    /\ pc = "walk"
    /\ \E i \in 1..Len(selection_log) :
          /\ selection_log[i].via = "template"
          /\ Script(selection_log[i].id).goal \notin {goal, "allround"}

\* the pool the selector picks from in category cat
C24_PoolOf(cat) ==
    IF C23_Matching(cat, C23_Ceiling) # {}
    THEN C23_Matching(cat, C23_Ceiling)
    ELSE C23_Pool(cat, C23_Ceiling)

C24_Fresher(pool, id) ==
    {d \in pool : get_freshness_score(last_selected[d])
                      > get_freshness_score(last_selected[id])}

C24_Picked ==
    (C23_StepTried /\ step' = step + 1 /\ C23_Selected) =>
        LET sel == selection_log'[Len(selection_log) + 1].id
        IN  Cardinality(C24_Fresher(C24_PoolOf(Script(sel).script_category), sel))
                <= 2

\* every member of a pool of at most three blocks may be picked
C24_SmallPool ==
    C23_StepTried =>
        LET cats == active_categories(template_rules[step])
            choices == select_best_script_from_categories(
                           present, last_selected, cats, goal, training_type,
                           C23_Ceiling, used_script_ids)
        IN  \A k \in 1..Len(cats) :
               (/\ C24_PoolOf(cats[k]) # {}
                /\ \A j \in 1..(k - 1) : C24_PoolOf(cats[j]) = {}
                /\ Cardinality(C24_PoolOf(cats[k])) <= 3)
               => choices = C24_PoolOf(cats[k])

\* C24: the block picked from a non-empty pool is among the three freshest:
\* at most two members of the pool have a strictly higher freshness score,
\* and from a pool of three or fewer blocks any member may be picked.
C24_TopThree == []C24_SmallPool /\ [][C24_Picked]_vars

\* the third freshest of a pool of four combination blocks was picked for
\* the first step, the stalest being left out
C24_Witness ==
    /\ pc = "walk"
    /\ step = 2
    /\ template_rules = Templates[3]
    /\ present = {1, 2, 17, 18}
    /\ goal = "strength"
    /\ selection_log = <<[id |-> 2, via |-> "template", step |-> 1]>>

\* ------------------------------------------------------------------------
\* The filler
\* ------------------------------------------------------------------------
\* an unused, active block of the discipline, of the requested goal or
\* all-round, in a category that is not special (used: the used-block set)
C25_Candidate(id, used) ==
    /\ id \in present \ used
    /\ Script(id).type = training_type
    /\ Script(id).is_active
    /\ Script(id).goal \in {goal, "allround"}
    /\ ~SpecialCategoryOfDiscipline(Script(id).script_category)

C25_Filling ==
    /\ pc = "balance"
    /\ pc' = "finish"
    /\ SumDuration(selected_scripts) < min_allowed

\* what the filler appended
C25_Added ==
    SubSeq(selected_scripts', Len(selected_scripts) + 1, Len(selected_scripts'))

C25_Appends ==
    /\ Len(selected_scripts') >= Len(selected_scripts)
    /\ SubSeq(selected_scripts', 1, Len(selected_scripts)) = selected_scripts
    /\ \A i \in 1..Len(C25_Added) :
          /\ C25_Candidate(C25_Added[i],
                           used_script_ids \cup Range(SubSeq(C25_Added, 1, i - 1)))
          /\ Duration(C25_Added[i])
                 <= min_allowed - SumDuration(selected_scripts)
                               - SumDuration(SubSeq(C25_Added, 1, i - 1))
          /\ \A j \in (i + 1)..Len(C25_Added) :
                Duration(C25_Added[i]) <= Duration(C25_Added[j])
    /\ SumDuration(selected_scripts') <= min_allowed

C25_StopsAsStated ==
    LET shortfall == min_allowed - SumDuration(selected_scripts')
    IN  \/ shortfall <= FillerCloseEnough
        \/ ~\E id \in present :
               /\ C25_Candidate(id, used_script_ids')
               /\ Duration(id) <= shortfall

C25_StopsAmended ==
    LET shortfall == min_allowed - SumDuration(selected_scripts')
    IN  \/ shortfall <= FillerCloseEnough
        \/ ~\E id \in present :
               /\ C25_Candidate(id, used_script_ids')
               /\ Categories[Script(id).script_category].is_active
               /\ Duration(id) <= shortfall

\* C25 as stated: the filler appends blocks in ascending duration, each no
\* longer than the shortfall left at that moment, and stops with a shortfall
\* of at most 1.0 minute or when no unused, active block of the discipline,
\* of the requested goal or all-round, outside the special categories, is
\* short enough for the shortfall left.
C25_Original == [][C25_Filling => (C25_Appends /\ C25_StopsAsStated)]_vars

\* C25, amended: as stated, the blocks that count at the stop being those
\* of active categories only; a block of an inactive category is never a
\* filler, however short.
C25_Filler ==
    [][C25_Filling =>
          /\ C25_Appends
          /\ C25_StopsAmended
          /\ \A i \in 1..Len(C25_Added) :
                Categories[Script(C25_Added[i]).script_category].is_active]_vars

\* two fillers were appended and a shortfall of more than a minute is left
C25_Witness ==
    /\ pc = "finish"
    /\ Len(selection_log) >= 2
    /\ selection_log[Len(selection_log)].via = "filler"
    /\ selection_log[Len(selection_log) - 1].via = "filler"
    /\ min_allowed - SumDuration(selected_scripts) > FillerCloseEnough

\* ------------------------------------------------------------------------
\* The trim
\* ------------------------------------------------------------------------
C26_Trimming ==
    /\ pc = "balance"
    /\ pc' = "finish"
    /\ SumDuration(selected_scripts) > max_allowed

\* the block was appended by the special insertion of a step
C26_SpecialInsertion(id) ==
    \E i \in 1..Len(selection_log) :
        selection_log[i].id = id /\ selection_log[i].via = "special"

\* the category of the block is of the warmup class or of the cooldown
\* class (cooldown, stretch, relaxation)
C26_ProtectedClass(id) == is_warmup_script(id) \/ is_cooldown_script(id)

C26_EssentialKept ==
    C26_Trimming =>
        \A i \in 1..Len(selected_scripts) :
            (C26_SpecialInsertion(selected_scripts[i])
             \/ C26_ProtectedClass(selected_scripts[i]))
                => selected_scripts[i] \in Range(selected_scripts')

\* C26 as stated: a trim keeps every block added by special insertion and
\* every block whose category is of the warmup, cooldown, stretch or
\* relaxation class; only other blocks are discarded.
C26_Original == [][C26_EssentialKept]_vars

\* the list is in canonical order: warmup-class blocks first, cooldown-class
\* blocks last
C27_Canonical(s) ==
    \A i, j \in 1..Len(s) :
        /\ (is_warmup_script(s[j]) /\ ~is_warmup_script(s[i])) => j < i
        /\ (is_cooldown_script(s[j]) /\ ~is_cooldown_script(s[i])) => i < j

\* C27: after a trim the returned list is in canonical order:
\* every warmup-class block comes before every block that is not of the
\* warmup class, and every cooldown-class block comes after every block that
\* is not of the cooldown class.
C27_CanonicalOrder == [][C26_Trimming => C27_Canonical(selected_scripts')]_vars

\* the blocks that survive a trim, before they are reordered
C27_Survivors ==
    SelectSeq(balance_input, IsEssential)
    \o KeepOptional(SelectSeq(balance_input, IsOptional),
                    SumDuration(SelectSeq(balance_input, IsEssential)),
                    max_allowed)

\* a trim has run whose surviving blocks were not in canonical order: the
\* reordering moved a warmup-class or cooldown-class block
C27_Witness ==
    /\ Trimmed
    /\ pc = "finish"
    /\ ~C27_Canonical(C27_Survivors)
    /\ \E i \in 1..Len(selected_scripts) : ~IsMainScript(selected_scripts[i])
    /\ \E i \in 1..Len(selected_scripts) : IsMainScript(selected_scripts[i])
    /\ C27_Canonical(selected_scripts)

\* the blocks of the list that are neither warmup-class nor cooldown-class
C28_Main(s) == SelectSeq(s, IsMainScript)

C28_Kept(id) == id \in Range(selected_scripts')

C28_OrderKept ==
    (C26_Trimming /\ training_type \in {"kickboxing", "power_yoga"}) =>
        /\ C28_Main(selected_scripts') = SelectSeq(C28_Main(selected_scripts), C28_Kept)
        /\ \A i \in 2..Len(selection_log) :
              (/\ selection_log[i].via = "special"
               /\ C28_Kept(selection_log[i].id)
               /\ C28_Kept(selection_log[i - 1].id))
              => \E a, b \in 1..Len(selected_scripts') :
                    /\ a < b
                    /\ selected_scripts'[a] = selection_log[i - 1].id
                    /\ selected_scripts'[b] = selection_log[i].id

\* C28 as stated: for kickboxing and power yoga a trim keeps the relative
\* order of the surviving blocks that are neither warmup-class nor
\* cooldown-class, so a special-insertion block that survives together with
\* the block of its step still comes after that block.
C28_Original == [][C28_OrderKept]_vars


\* the special header written before block i of a compiled text
C30_Header(compiled, i) ==
    format_special_round_header(SpecialTypeName[compiled[i].header])

\* C30 as stated: in every compiled text a block of py_vinyasa_s2sit gets the
\* standing-to-sitting header and a block of py_vinyasa_s2s gets the
\* standing-to-standing header, never the header of the other sub-type.
C30_Original ==
    \A k \in 1..Len(sessions) :
        LET compiled == sessions[k].compiled_script
        IN  \A i \in 1..Len(compiled) :
                /\ Script(compiled[i].script).script_category = PyVinyasaS2Sit
                   => C30_Header(compiled, i) = headers.vinyasa_s2sit
                /\ Script(compiled[i].script).script_category = PyVinyasaS2S
                   => C30_Header(compiled, i) = headers.vinyasa_s2s


\* ------------------------------------------------------------------------
\* Two generation calls running at the same time on one repository.  Every
\* call has its own generator object and its own in-memory WorkoutScript
\* instances; the rows of the repository (times_selected, last_selected)
\* are shared.  An instance carries the field values read when its query
\* was evaluated; save(update_fields=...) writes the values of the instance.
\* ------------------------------------------------------------------------
\* the largest number of blocks in the shared repository
MaxConcurrentLibrary == 3
ConcurrentRuns == 2
Runs == 1..ConcurrentRuns

\* the templates of the two calls: required steps of active categories
\* without a directive
ConcurrentTemplates == {
    \* two rounds of combinations
    << Step(CatCombos, << >>, TRUE, TRUE, FALSE, FALSE),
       Step(CatCombos, << >>, TRUE, TRUE, FALSE, FALSE) >>,
    \* a core round, for which the repository has no block, and a round of
    \* combinations
    << Step(CatCore, << >>, TRUE, TRUE, FALSE, FALSE),
       Step(CatCombos, << >>, TRUE, TRUE, FALSE, FALSE) >> }

ConcurrentTargets == {150, 300}

NoSession == 0

\* a generator object after __init__ and the set-up of lines 160-200
FreshRun ==
    [pc |-> "walk", step |-> 1, used_script_ids |-> {},
     selected_scripts |-> << >>, total_duration |-> 0, loaded |-> << >>,
     missing_categories |-> << >>, fallback_substitutions |-> << >>,
     session |-> NoSession, error |-> "none", result |-> << >>]

\* a WorkoutScript instance as the query that returned it loaded it
Loaded(id, via) ==
    [id |-> id, times_selected |-> times_selected[id], via |-> via]

InitConcurrent ==
    /\ training_type = "kickboxing"
    /\ goal \in RequestGoals
    /\ target \in ConcurrentTargets
    /\ target_duration = target
    /\ time_flexibility = TimeFlexibilityFor(target)
    /\ template_rules \in ConcurrentTemplates
    /\ present \in {S \in SUBSET {id \in LibraryPool("kickboxing") :
                                     Script(id).script_category = CatCombos} :
                       S # {} /\ Cardinality(S) <= MaxConcurrentLibrary}
    /\ times_selected = [id \in ScriptIds |-> 0]
    /\ last_selected = [id \in ScriptIds |-> ScriptPool[id].last_selected]
    /\ probe = [fn |-> "concurrent", runs |-> [p \in Runs |-> FreshRun]]
    /\ pc = "idle"
    /\ error = "none"
    /\ used_script_ids = {}
    /\ sport_additions = NoAdditions
    /\ missing_categories = << >>
    /\ fallback_substitutions = << >>
    /\ selected_scripts = << >>
    /\ total_duration = 0
    /\ optional_budget = 0
    /\ optional_used = 0
    /\ step = 1
    /\ sessions = << >>
    /\ result = << >>
    /\ selection_log = << >>
    /\ balance_input = << >>
    /\ run = 1
    /\ prior = << >>

\* the variables no step of a concurrent call writes
concurrent_frame ==
    <<present, template_rules, training_type, goal, target, pc, error,
      target_duration, time_flexibility, used_script_ids, sport_additions,
      missing_categories, fallback_substitutions, selected_scripts,
      total_duration, optional_budget, optional_used, step, result,
      selection_log, balance_input, run, prior>>

SetRun(p, r) == probe' = [probe EXCEPT !.runs[p] = r]

\* the category a step is recorded missing under
MissingStep(rule) == <<[category |-> rule.primary_category, required |-> TRUE]>>

\* lines 325-332 and 378-381 with 458-476 in call p, for a required step
\* of active categories without a directive: the selector or, when it
\* returns None, the fallback evaluates its query and returns an instance
LoadStepScript ==
    /\ probe.fn = "concurrent"
    /\ \E p \in Runs :
          LET r == probe.runs[p]
              rule == template_rules[r.step]
              remaining_time == max_allowed - r.total_duration
          IN  /\ r.pc = "walk"
              /\ r.step <= Len(template_rules)
              /\ rule.is_active
              /\ rule.is_required
              /\ active_categories(rule) # << >>
              /\ ~rule.add_surprise_round_after
              /\ ~rule.add_max_challenge_after
              /\ ~rule.add_vinyasa_transition_after
              /\ LET choices == select_best_script_from_categories(
                                    present, last_selected,
                                    active_categories(rule),
                                    goal, training_type, remaining_time,
                                    r.used_script_ids)
                     fallbacks == find_fallback_script_for_training_type(
                                      present, training_type, goal,
                                      remaining_time, r.used_script_ids)
                 IN  IF choices # {}
                     THEN \E sel \in choices :
                             SetRun(p, [r EXCEPT !.pc = "mark",
                                                 !.loaded = <<Loaded(sel, "template")>>])
                     ELSE IF fallbacks # {}
                     THEN \E fb \in fallbacks :
                             SetRun(p, [r EXCEPT
                                           !.pc = "mark",
                                           !.loaded = <<Loaded(fb, "fallback")>>,
                                           !.missing_categories =
                                               @ \o MissingStep(rule)])
                     ELSE SetRun(p, [r EXCEPT
                                       !.step = @ + 1,
                                       !.missing_categories = @ \o MissingStep(rule),
                                       !.total_duration =
                                           SumDuration(r.selected_scripts)])
    /\ UNCHANGED <<times_selected, last_selected, sessions>>
    /\ UNCHANGED concurrent_frame

\* mark_selected on the instance inst: the counter of the instance is
\* incremented and written to the row
SaveInstance(inst) ==
    /\ times_selected' = [times_selected EXCEPT ![inst.id] = inst.times_selected + 1]
    /\ last_selected' = [last_selected EXCEPT ![inst.id] = Today]

\* lines 355-375 and 477-487 with 381 in call p: the block is appended,
\* mark_selected saves the instance and total_duration is computed anew
SaveStepScript ==
    /\ probe.fn = "concurrent"
    /\ \E p \in Runs :
          LET r == probe.runs[p]
              rule == template_rules[r.step]
              inst == r.loaded[1]
              appended == Append(r.selected_scripts, inst.id)
          IN  /\ r.pc = "mark"
              /\ SaveInstance(inst)
              /\ SetRun(p, [r EXCEPT
                               !.pc = "walk",
                               !.step = @ + 1,
                               !.loaded = << >>,
                               !.used_script_ids = @ \cup {inst.id},
                               !.selected_scripts = appended,
                               !.total_duration = SumDuration(appended),
                               !.fallback_substitutions =
                                   IF inst.via = "fallback"
                                   THEN @ \o <<[missing |-> rule.primary_category,
                                                used |-> Script(inst.id).script_category,
                                                script |-> inst.id]>>
                                   ELSE @])
    /\ UNCHANGED sessions
    /\ UNCHANGED concurrent_frame

\* lines 206-216 in call p: apply_sport_specific_intelligence, then
\* apply_duration_management, which evaluates the filler query when the
\* list is short and trims it when it is long
ManageDuration ==
    /\ probe.fn = "concurrent"
    /\ \E p \in Runs :
          LET r == probe.runs[p]
              enhanced_scripts == apply_sport_specific_intelligence(
                                      r.selected_scripts, training_type)
              needed == min_allowed - SumDuration(enhanced_scripts)
          IN  /\ r.pc = "walk"
              /\ r.step > Len(template_rules)
              /\ IF SumDuration(enhanced_scripts) < min_allowed
                 THEN \E ordered \in OrderedByDuration(
                                        regular_candidates(present, training_type,
                                                           goal, needed,
                                                           r.used_script_ids)) :
                         LET added == FillerLoop(ordered, needed)
                         IN  SetRun(p, [r EXCEPT
                                           !.pc = IF added = << >> THEN "finish"
                                                  ELSE "fill",
                                           !.selected_scripts = enhanced_scripts,
                                           !.loaded = [i \in 1..Len(added) |->
                                                          Loaded(added[i], "filler")]])
                 ELSE SetRun(p, [r EXCEPT
                                   !.pc = "finish",
                                   !.selected_scripts =
                                       trim_workout_to_target_duration(
                                           enhanced_scripts, max_allowed)])
    /\ UNCHANGED <<times_selected, last_selected, sessions>>
    /\ UNCHANGED concurrent_frame

\* lines 722-726 in call p: the next filler block is appended and
\* mark_selected saves its instance
SaveFiller ==
    /\ probe.fn = "concurrent"
    /\ \E p \in Runs :
          LET r == probe.runs[p]
              inst == r.loaded[1]
          IN  /\ r.pc = "fill"
              /\ SaveInstance(inst)
              /\ SetRun(p, [r EXCEPT
                               !.pc = IF Len(r.loaded) = 1 THEN "finish" ELSE "fill",
                               !.loaded = Tail(r.loaded),
                               !.used_script_ids = @ \cup {inst.id},
                               !.selected_scripts = Append(@, inst.id)])
    /\ UNCHANGED sessions
    /\ UNCHANGED concurrent_frame

\* lines 220-221 and 822-832 in call p: ValueError for an empty list,
\* otherwise WorkoutSession.objects.create inserts the row of the session;
\* its SessionScript rows are not yet there
InsertSession ==
    /\ probe.fn = "concurrent"
    /\ \E p \in Runs :
          LET r == probe.runs[p]
              workout_session ==
                  create_workout_session_record(
                      r.selected_scripts, training_type, goal, target_duration,
                      time_flexibility, NoAdditions)
          IN  /\ r.pc = "finish"
              /\ IF r.selected_scripts = << >>
                 THEN /\ SetRun(p, [r EXCEPT !.pc = "failed",
                                             !.error = "no_scripts"])
                      /\ UNCHANGED sessions
                 ELSE /\ sessions' = Append(sessions,
                                            [workout_session EXCEPT
                                                !.session_scripts = << >>])
                      /\ SetRun(p, [r EXCEPT !.pc = "link",
                                             !.session = Len(sessions) + 1])
    /\ UNCHANGED <<times_selected, last_selected>>
    /\ UNCHANGED concurrent_frame

\* lines 834-843 and 246-250 in call p: SessionScript.objects.create
\* inserts the row of the next block; after the last one the result is
\* compiled and returned
InsertSessionScript ==
    /\ probe.fn = "concurrent"
    /\ \E p \in Runs :
          LET r == probe.runs[p]
              rows == SessionScripts(r.selected_scripts)
              k == Len(sessions[r.session].session_scripts) + 1
          IN  /\ r.pc = "link"
              /\ sessions' = [sessions EXCEPT
                                 ![r.session].session_scripts = Append(@, rows[k])]
              /\ IF k < Len(rows)
                 THEN UNCHANGED probe
                 ELSE SetRun(p, [r EXCEPT
                                   !.pc = "done",
                                   !.result =
                                       <<compile_generation_results(
                                             sessions'[r.session],
                                             r.selected_scripts, training_type,
                                             target_duration, NoAdditions,
                                             r.missing_categories,
                                             r.fallback_substitutions)>>])
    /\ UNCHANGED <<times_selected, last_selected>>
    /\ UNCHANGED concurrent_frame

NextConcurrent ==
    \/ LoadStepScript
    \/ SaveStepScript
    \/ ManageDuration
    \/ SaveFiller
    \/ InsertSession
    \/ InsertSessionScript

SpecConcurrent == InitConcurrent /\ [][NextConcurrent]_vars

\* both calls have finished
C29_BothDone ==
    probe.fn = "concurrent" /\ \A p \in Runs : probe.runs[p].pc = "done"

\* C29 as stated: when two generation calls run at the same time on one
\* repository and both select the same block, the times_selected counter of
\* that block is, after both calls have finished, exactly 2 higher than
\* before (it was 0): no increment is lost between the read of the block and
\* the write of its counter.
C29_Original ==
    C29_BothDone =>
        \A id \in probe.runs[1].used_script_ids \cap probe.runs[2].used_script_ids :
            times_selected[id] = 2

====
